---------------------------- MODULE Spec2Model ----------------------------
(***************************************************************************)
(* Translation from stable MIR constructs to their rustc counterparts      *)
(* (compiler/rustc_smir/src/rustc_internal/internal.rs).                   *)
(*                                                                         *)
(* Every `impl RustcInternal for X` is an operator X_internal(t, x) over   *)
(* the identity tables t and the stable value x.  A translation either     *)
(* returns a value or panics; a panic is the outcome Fail(kind, msg) and   *)
(* it propagates through every enclosing call in evaluation order.        *)
(***************************************************************************)
EXTENDS Integers, Sequences, FiniteSets, TLC

VARIABLES tables, call, arg, out, workers, walk

vars == <<tables, call, arg, out, workers, walk>>

(***************************************************************************)
(* Bounds of the model.                                                    *)
(***************************************************************************)
\* Largest number of entries registered in one category of the tables.
MaxReg == 2
\* Longest Vec (generic arguments, projections, operands, statements) fed
\* to a translator as an input.
MaxLen == 2

\* Stable indices the inputs draw from: 0..n-1 are registered in a table
\* with n entries, so MaxReg itself is never registered.
Idx == 0..MaxReg

(***************************************************************************)
(* Outcomes.  Ok(v) is a returned value; Fail(kind, msg) is a panic whose  *)
(* payload is msg, classified by the kind of failure it stands for.        *)
(***************************************************************************)
MissingIdentity == "MissingIdentity"
LiftFailure == "LiftFailure"
UnsupportedConstruct == "UnsupportedConstruct"

FailureKinds == {MissingIdentity, LiftFailure, UnsupportedConstruct}

Ok(v) == [ok |-> TRUE, val |-> v]

Fail(kind, msg) == [ok |-> FALSE, kind |-> kind, msg |-> msg]

\* Option::unwrap on a None value.
UnwrapNoneMsg == "called Option::unwrap() on a None value"
\* unimplemented!() without a message.
UnimplementedMsg == "not implemented"
\* unimplemented!("cannot convert back from an opaque field")
OpaqueFieldMsg == "not implemented: cannot convert back from an opaque field"
\* todo!()
TodoMsg == "not yet implemented"
\* lookup of an index that the tables do not hold
MissingIndexMsg == "index is not registered in the tables"

(***************************************************************************)
(* Evaluation order: the sub-expressions of a struct literal, a tuple or a *)
(* call are evaluated left to right and the first panic unwinds the whole  *)
(* expression.                                                             *)
(***************************************************************************)
Then1(r1, B(_)) == IF ~r1.ok THEN r1 ELSE Ok(B(r1.val))

Then2(r1, r2, B(_, _)) ==
    IF ~r1.ok THEN r1
    ELSE IF ~r2.ok THEN r2
    ELSE Ok(B(r1.val, r2.val))

Then3(r1, r2, r3, B(_, _, _)) ==
    IF ~r1.ok THEN r1
    ELSE IF ~r2.ok THEN r2
    ELSE IF ~r3.ok THEN r3
    ELSE Ok(B(r1.val, r2.val, r3.val))

Then4(r1, r2, r3, r4, B(_, _, _, _)) ==
    IF ~r1.ok THEN r1
    ELSE IF ~r2.ok THEN r2
    ELSE IF ~r3.ok THEN r3
    ELSE IF ~r4.ok THEN r4
    ELSE Ok(B(r1.val, r2.val, r3.val, r4.val))

\* iter().map(f).collect(): the elements are translated in order and the
\* first panic ends the iteration.
MapCollect(s, F(_)) ==
    LET rs == [i \in 1..Len(s) |-> F(s[i])]
        bad == {i \in 1..Len(s) : ~rs[i].ok}
    IN  IF bad # {}
        THEN rs[CHOOSE i \in bad : \A j \in bad : i <= j]
        ELSE Ok([i \in 1..Len(s) |-> rs[i].val])

\* Sequences over S of length at most n.
SeqUpTo(S, n) == UNION {[1..k -> S] : k \in 0..n}

(***************************************************************************)
(* Identity tables and the destination context.                            *)
(*                                                                         *)
(* Each category is an index map: entry i (0-based) is the handle that was *)
(* registered i-th.  A handle belongs to a context; the destination        *)
(* context of every call is "tcx".                                         *)
(***************************************************************************)
Categories ==
    {"def_ids", "types", "ty_consts", "mir_consts", "instances",
     "alloc_ids", "layouts", "spans"}

Contexts == {"tcx", "foreign"}

Handle(cat, i, ctx) == [cat |-> cat, id |-> i, ctx |-> ctx]

\* The three shapes of rustc_middle::mir::Const, chosen by the index so that
\* a table with three entries holds one of each.
MirConstEntry(i, ctxA, ctxB) ==
    CASE i % 3 = 0 -> [tag |-> "Const::Ty",
                       ty |-> Handle("const.ty", i, ctxA),
                       ct |-> Handle("const.ct", i, ctxB)]
      [] i % 3 = 1 -> [tag |-> "Const::Unevaluated",
                       uneval |-> Handle("const.uneval", i, ctxA),
                       ty |-> Handle("const.ty", i, ctxB)]
      [] OTHER     -> [tag |-> "Const::Val",
                       const_val |-> Handle("const.val", i, ctxA),
                       ty |-> Handle("const.ty", i, ctxB)]

\* Slots of the tables that can hold a value of a foreign context.
Slots == (Categories \ {"mir_consts"}) \cup {"mir_consts.fst", "mir_consts.snd"}

CtxOf(foreign, slot, i) ==
    IF <<slot, i>> \in foreign THEN "foreign" ELSE "tcx"

\* The tables with n entries per category whose entries named in `foreign`
\* come from another context.
MkTables(n, foreign) ==
    [c \in Categories |->
        [k \in 1..n |->
            IF c = "mir_consts"
            THEN MirConstEntry(k - 1,
                               CtxOf(foreign, "mir_consts.fst", k - 1),
                               CtxOf(foreign, "mir_consts.snd", k - 1))
            ELSE Handle(c, k - 1, CtxOf(foreign, c, k - 1))]]

\* The tables in which every index of Idx is registered, all in tcx.
FullTables == MkTables(MaxReg + 1, {})

\* The tables a session can start from: any number of entries up to MaxReg,
\* at most one of them foreign, and the full tables.
TableSpace ==
    {MkTables(n, {}) : n \in 0..MaxReg + 1}
    \cup {MkTables(n, {<<s, i>>}) : n \in 1..MaxReg, s \in Slots, i \in 0..MaxReg - 1}

\* tables.<category>[index]
Index(map, i) ==
    IF i < Len(map) THEN Ok(map[i + 1]) ELSE Fail(MissingIdentity, MissingIndexMsg)

\* tcx.lift(value)
LiftNone == [ok |-> FALSE, kind |-> LiftFailure, msg |-> UnwrapNoneMsg]

Lift(h) == IF h.ctx = "tcx" THEN Ok(h) ELSE LiftNone

\* tcx.lift(tables.<category>[index]).unwrap()
LiftIndexed(map, i) ==
    LET r == Index(map, i) IN IF ~r.ok THEN r ELSE Lift(r.val)

(***************************************************************************)
(* Leaf translators: an index into the tables, lifted into tcx.            *)
(***************************************************************************)
\* impl RustcInternal for CrateNum
CrateNum_internal(n) == [crate_num |-> n]

\* impl RustcInternal for DefId
DefId_internal(t, d) == LiftIndexed(t.def_ids, d)

\* impl RustcInternal for CrateItem
CrateItem_internal(t, item) == DefId_internal(t, item)

\* impl RustcInternal for StaticDef
StaticDef_internal(t, def) == DefId_internal(t, def)

\* impl RustcInternal for Region: the stable region is not read.
re_erased == [region |-> "ReErased"]

\* A translator that keeps the kind of the stable region.
Region_internal_kept(t, reg) == Ok([region |-> reg.kind])

Region_internal(t, reg) == Ok(re_erased)

\* A translator that falls back on the first registered type.
Ty_internal_fallback(t, ty) ==
    IF ty < Len(t.types) THEN LiftIndexed(t.types, ty) ELSE LiftIndexed(t.types, 0)

\* impl RustcInternal for Ty
Ty_internal(t, ty) == LiftIndexed(t.types, ty)

\* A translator that looks at the kind of the constant before its id.
TyConst_internal_kinded(t, c) ==
    IF c.kind = "Param" THEN LiftIndexed(t.ty_consts, c.id) ELSE LiftIndexed(t.ty_consts, 0)

\* impl RustcInternal for TyConst: only the id of the constant is read.
TyConst_internal(t, c) == LiftIndexed(t.ty_consts, c.id)

\* impl RustcInternal for MirConst: the entry keeps its variant and each of
\* its two components is lifted, the first one first.
MirConst_internal(t, c) ==
    LET r == Index(t.mir_consts, c.id)
        k == r.val
    IN  IF ~r.ok THEN r
        ELSE CASE k.tag = "Const::Ty" ->
                    Then2(Lift(k.ty), Lift(k.ct),
                          LAMBDA a, b : [tag |-> "Const::Ty", ty |-> a, ct |-> b])
               [] k.tag = "Const::Unevaluated" ->
                    Then2(Lift(k.uneval), Lift(k.ty),
                          LAMBDA a, b : [tag |-> "Const::Unevaluated", uneval |-> a, ty |-> b])
               [] k.tag = "Const::Val" ->
                    Then2(Lift(k.const_val), Lift(k.ty),
                          LAMBDA a, b : [tag |-> "Const::Val", const_val |-> a, ty |-> b])

\* impl RustcInternal for Instance: only the def of the instance is read.
Instance_internal(t, inst) == LiftIndexed(t.instances, inst.def)

\* impl RustcInternal for AllocId
AllocId_internal(t, a) == LiftIndexed(t.alloc_ids, a)

\* A translator that returns the layout of the tables as it is.
Layout_internal_unlifted(t, l) == Index(t.layouts, l)

\* impl RustcInternal for Layout
Layout_internal(t, l) == LiftIndexed(t.layouts, l)

\* impl RustcInternal for Span: tables[span], with no lift.
Span_internal(t, sp) == Index(t.spans, sp)

\* impl RustcInternal for VariantIdx
VariantIdx_internal(v) == v

\* impl RustcInternal for AdtDef: tcx.adt_def(def_id)
AdtDef_internal(t, def) ==
    Then1(DefId_internal(t, def), LAMBDA d : [tag |-> "AdtDef", did |-> d])

\* impl RustcInternal for VariantDef
VariantDef_internal(t, v) ==
    Then1(AdtDef_internal(t, v.adt_def),
          LAMBDA a : [tag |-> "VariantDef", adt |-> a, idx |-> VariantIdx_internal(v.idx)])

\* A translator that maps global assembly to an item of its own.
MonoItem_internal_asm(t, item) ==
    CASE item.tag = "Fn" ->
            Then1(Instance_internal(t, item.instance),
                  LAMBDA i : [tag |-> "MonoItem::Fn", instance |-> i])
      [] item.tag = "Static" ->
            Then1(StaticDef_internal(t, item.def),
                  LAMBDA d : [tag |-> "MonoItem::Static", def |-> d])
      [] item.tag = "GlobalAsm" -> Ok([tag |-> "MonoItem::GlobalAsm", item |-> item.asm])

\* A translator that reports global assembly as a failed unwrap.
MonoItem_internal_unwrap(t, item) ==
    CASE item.tag = "Fn" ->
            Then1(Instance_internal(t, item.instance),
                  LAMBDA i : [tag |-> "MonoItem::Fn", instance |-> i])
      [] item.tag = "Static" ->
            Then1(StaticDef_internal(t, item.def),
                  LAMBDA d : [tag |-> "MonoItem::Static", def |-> d])
      [] item.tag = "GlobalAsm" -> LiftNone

\* impl RustcInternal for MonoItem
MonoItem_internal(t, item) ==
    CASE item.tag = "Fn" ->
            Then1(Instance_internal(t, item.instance),
                  LAMBDA i : [tag |-> "MonoItem::Fn", instance |-> i])
      [] item.tag = "Static" ->
            Then1(StaticDef_internal(t, item.def),
                  LAMBDA d : [tag |-> "MonoItem::Static", def |-> d])
      [] item.tag = "GlobalAsm" -> Fail(UnsupportedConstruct, UnimplementedMsg)

(***************************************************************************)
(* Scalar translators: one internal tag per stable tag.                    *)
(***************************************************************************)
\* impl RustcInternal for IntTy
IntTy_internal(x) ==
    CASE x = "Isize" -> "Isize" [] x = "I8" -> "I8" [] x = "I16" -> "I16"
      [] x = "I32" -> "I32" [] x = "I64" -> "I64" [] x = "I128" -> "I128"

\* impl RustcInternal for UintTy
UintTy_internal(x) ==
    CASE x = "Usize" -> "Usize" [] x = "U8" -> "U8" [] x = "U16" -> "U16"
      [] x = "U32" -> "U32" [] x = "U64" -> "U64" [] x = "U128" -> "U128"

\* impl RustcInternal for FloatTy
FloatTy_internal(x) ==
    CASE x = "F16" -> "F16" [] x = "F32" -> "F32" [] x = "F64" -> "F64"
      [] x = "F128" -> "F128"

\* impl RustcInternal for Mutability
Mutability_internal(x) == CASE x = "Not" -> "Not" [] x = "Mut" -> "Mut"

\* impl RustcInternal for Movability
Movability_internal(x) ==
    CASE x = "Static" -> "Static" [] x = "Movable" -> "Movable"

\* impl RustcInternal for DynKind
DynKind_internal(x) == CASE x = "Dyn" -> "Dyn" [] x = "DynStar" -> "DynStar"

\* impl RustcInternal for ClosureKind
ClosureKind_internal(x) ==
    CASE x = "Fn" -> "Fn" [] x = "FnMut" -> "FnMut" [] x = "FnOnce" -> "FnOnce"

\* impl RustcInternal for Safety
Safety_internal(x) == CASE x = "Unsafe" -> "Unsafe" [] x = "Safe" -> "Safe"

\* The Abi variants that carry an unwind flag, and those that do not.
AbiUnwindTags ==
    {"C", "Cdecl", "Stdcall", "Fastcall", "Vectorcall", "Thiscall", "Aapcs",
     "Win64", "SysV64", "System"}

AbiPlainTags ==
    {"Rust", "PtxKernel", "Msp430Interrupt", "X86Interrupt", "EfiApi",
     "AvrInterrupt", "AvrNonBlockingInterrupt", "CCmseNonSecureCall",
     "RustIntrinsic", "RustCall", "Unadjusted", "RustCold", "RiscvInterruptM",
     "RiscvInterruptS"}

\* impl RustcInternal for Abi
Abi_internal(x) ==
    CASE x.tag = "Rust" -> [tag |-> "Rust"]
      [] x.tag = "C" -> [tag |-> "C", unwind |-> x.unwind]
      [] x.tag = "Cdecl" -> [tag |-> "Cdecl", unwind |-> x.unwind]
      [] x.tag = "Stdcall" -> [tag |-> "Stdcall", unwind |-> x.unwind]
      [] x.tag = "Fastcall" -> [tag |-> "Fastcall", unwind |-> x.unwind]
      [] x.tag = "Vectorcall" -> [tag |-> "Vectorcall", unwind |-> x.unwind]
      [] x.tag = "Thiscall" -> [tag |-> "Thiscall", unwind |-> x.unwind]
      [] x.tag = "Aapcs" -> [tag |-> "Aapcs", unwind |-> x.unwind]
      [] x.tag = "Win64" -> [tag |-> "Win64", unwind |-> x.unwind]
      [] x.tag = "SysV64" -> [tag |-> "SysV64", unwind |-> x.unwind]
      [] x.tag = "PtxKernel" -> [tag |-> "PtxKernel"]
      [] x.tag = "Msp430Interrupt" -> [tag |-> "Msp430Interrupt"]
      [] x.tag = "X86Interrupt" -> [tag |-> "X86Interrupt"]
      [] x.tag = "EfiApi" -> [tag |-> "EfiApi"]
      [] x.tag = "AvrInterrupt" -> [tag |-> "AvrInterrupt"]
      [] x.tag = "AvrNonBlockingInterrupt" -> [tag |-> "AvrNonBlockingInterrupt"]
      [] x.tag = "CCmseNonSecureCall" -> [tag |-> "CCmseNonSecureCall"]
      [] x.tag = "System" -> [tag |-> "System", unwind |-> x.unwind]
      [] x.tag = "RustIntrinsic" -> [tag |-> "RustIntrinsic"]
      [] x.tag = "RustCall" -> [tag |-> "RustCall"]
      [] x.tag = "Unadjusted" -> [tag |-> "Unadjusted"]
      [] x.tag = "RustCold" -> [tag |-> "RustCold"]
      [] x.tag = "RiscvInterruptM" -> [tag |-> "RiscvInterruptM"]
      [] x.tag = "RiscvInterruptS" -> [tag |-> "RiscvInterruptS"]

\* impl RustcInternal for Variance
Variance_internal(x) ==
    CASE x = "Covariant" -> "Covariant" [] x = "Invariant" -> "Invariant"
      [] x = "Contravariant" -> "Contravariant" [] x = "Bivariant" -> "Bivariant"

\* impl RustcInternal for RetagKind
RetagKind_internal(x) ==
    CASE x = "FnEntry" -> "FnEntry" [] x = "TwoPhase" -> "TwoPhase"
      [] x = "Raw" -> "Raw" [] x = "Default" -> "Default"

\* impl RustcInternal for UnOp
UnOp_internal(x) ==
    CASE x = "Not" -> "Not" [] x = "Neg" -> "Neg" [] x = "PtrMetadata" -> "PtrMetadata"

\* A translator that folds every unchecked operator into its checked form.
BinOp_internal_merged(x) ==
    CASE x = "AddUnchecked" -> "Add" [] x = "SubUnchecked" -> "Sub"
      [] x = "MulUnchecked" -> "Mul" [] x = "ShlUnchecked" -> "Shl"
      [] x = "ShrUnchecked" -> "Shr" [] OTHER -> x

\* impl RustcInternal for BinOp
BinOp_internal(x) ==
    CASE x = "Add" -> "Add" [] x = "AddUnchecked" -> "AddUnchecked"
      [] x = "Sub" -> "Sub" [] x = "SubUnchecked" -> "SubUnchecked"
      [] x = "Mul" -> "Mul" [] x = "MulUnchecked" -> "MulUnchecked"
      [] x = "Div" -> "Div" [] x = "Rem" -> "Rem"
      [] x = "BitXor" -> "BitXor" [] x = "BitAnd" -> "BitAnd" [] x = "BitOr" -> "BitOr"
      [] x = "Shl" -> "Shl" [] x = "ShlUnchecked" -> "ShlUnchecked"
      [] x = "Shr" -> "Shr" [] x = "ShrUnchecked" -> "ShrUnchecked"
      [] x = "Eq" -> "Eq" [] x = "Lt" -> "Lt" [] x = "Le" -> "Le"
      [] x = "Ne" -> "Ne" [] x = "Ge" -> "Ge" [] x = "Gt" -> "Gt"
      [] x = "Cmp" -> "Cmp" [] x = "Offset" -> "Offset"

\* impl RustcInternal for FakeBorrowKind
FakeBorrowKind_internal(x) == CASE x = "Deep" -> "Deep" [] x = "Shallow" -> "Shallow"

\* impl RustcInternal for MutBorrowKind
MutBorrowKind_internal(x) ==
    CASE x = "Default" -> "Default" [] x = "TwoPhaseBorrow" -> "TwoPhaseBorrow"
      [] x = "ClosureCapture" -> "ClosureCapture"

\* impl RustcInternal for BorrowKind
BorrowKind_internal(x) ==
    CASE x.tag = "Shared" -> [tag |-> "Shared"]
      [] x.tag = "Fake" -> [tag |-> "Fake", fake |-> FakeBorrowKind_internal(x.fake)]
      [] x.tag = "Mut" -> [tag |-> "Mut", kind |-> MutBorrowKind_internal(x.kind)]

\* impl RustcInternal for PointerCoercion
PointerCoercion_internal(x) ==
    CASE x.tag = "ReifyFnPointer" -> [tag |-> "ReifyFnPointer"]
      [] x.tag = "UnsafeFnPointer" -> [tag |-> "UnsafeFnPointer"]
      [] x.tag = "ClosureFnPointer" ->
            [tag |-> "ClosureFnPointer", safety |-> Safety_internal(x.safety)]
      [] x.tag = "MutToConstPointer" -> [tag |-> "MutToConstPointer"]
      [] x.tag = "ArrayToPointer" -> [tag |-> "ArrayToPointer"]
      [] x.tag = "Unsize" -> [tag |-> "Unsize"]

\* A translator that sends both exposed-provenance casts to one internal cast.
CastKind_internal_folded(x) ==
    CASE x.tag \in {"PointerExposeAddress", "PointerWithExposedProvenance"} ->
            [tag |-> "PointerExposeProvenance"]
      [] x.tag = "PointerCoercion" ->
            [tag |-> "PointerCoercion", coercion |-> PointerCoercion_internal(x.coercion)]
      [] OTHER -> [tag |-> x.tag]

\* impl RustcInternal for CastKind
CastKind_internal(x) ==
    CASE x.tag = "PointerExposeAddress" -> [tag |-> "PointerExposeProvenance"]
      [] x.tag = "PointerWithExposedProvenance" -> [tag |-> "PointerWithExposedProvenance"]
      [] x.tag = "PointerCoercion" ->
            [tag |-> "PointerCoercion", coercion |-> PointerCoercion_internal(x.coercion)]
      [] x.tag = "DynStar" -> [tag |-> "DynStar"]
      [] x.tag = "IntToInt" -> [tag |-> "IntToInt"]
      [] x.tag = "FloatToInt" -> [tag |-> "FloatToInt"]
      [] x.tag = "FloatToFloat" -> [tag |-> "FloatToFloat"]
      [] x.tag = "IntToFloat" -> [tag |-> "IntToFloat"]
      [] x.tag = "PtrToPtr" -> [tag |-> "PtrToPtr"]
      [] x.tag = "FnPtrToPtr" -> [tag |-> "FnPtrToPtr"]
      [] x.tag = "Transmute" -> [tag |-> "Transmute"]

\* impl RustcInternal for CoroutineDesugaring
CoroutineDesugaring_internal(x) ==
    CASE x = "Async" -> "Async" [] x = "Gen" -> "Gen" [] x = "AsyncGen" -> "AsyncGen"

\* impl RustcInternal for CoroutineSource
CoroutineSource_internal(x) ==
    CASE x = "Block" -> "Block" [] x = "Closure" -> "Closure" [] x = "Fn" -> "Fn"

\* impl RustcInternal for CoroutineKind
CoroutineKind_internal(x) ==
    CASE x.tag = "Desugared" ->
            [tag |-> "Desugared",
             desugaring |-> CoroutineDesugaring_internal(x.desugaring),
             source |-> CoroutineSource_internal(x.source)]
      [] x.tag = "Coroutine" ->
            [tag |-> "Coroutine", movability |-> Movability_internal(x.movability)]

\* A translator that substitutes a cause for the opaque ones.
FakeReadCause_internal_substituted(x) ==
    CASE x.tag = "ForMatchGuard" -> Ok("ForMatchGuard")
      [] x.tag = "ForMatchedPlace" -> Ok("ForMatchedPlace")
      [] x.tag = "ForGuardBinding" -> Ok("ForGuardBinding")
      [] x.tag = "ForLet" -> Ok("ForLet")
      [] x.tag = "ForIndex" -> Ok("ForIndex")

\* impl RustcInternal for FakeReadCause
FakeReadCause_internal(x) ==
    CASE x.tag = "ForMatchGuard" -> Ok("ForMatchGuard")
      [] x.tag = "ForMatchedPlace" -> Fail(UnsupportedConstruct, OpaqueFieldMsg)
      [] x.tag = "ForGuardBinding" -> Ok("ForGuardBinding")
      [] x.tag = "ForLet" -> Fail(UnsupportedConstruct, OpaqueFieldMsg)
      [] x.tag = "ForIndex" -> Ok("ForIndex")

\* A translator that makes up a projection without the opaque steps.
UserTypeProjection_internal_guess(x) == Ok([base |-> x.base, projs |-> <<>>])

\* impl RustcInternal for UserTypeProjection
UserTypeProjection_internal(x) == Fail(UnsupportedConstruct, OpaqueFieldMsg)

\* A translator that gives the termination another reason.
UnwindAction_internal_incleanup(x) ==
    CASE x.tag = "Terminate" -> [tag |-> "Terminate", reason |-> "InCleanup"]
      [] x.tag = "Cleanup" -> [tag |-> "Cleanup", block |-> x.block]
      [] OTHER -> [tag |-> x.tag]

\* impl RustcInternal for UnwindAction
UnwindAction_internal(x) ==
    CASE x.tag = "Continue" -> [tag |-> "Continue"]
      [] x.tag = "Unreachable" -> [tag |-> "Unreachable"]
      [] x.tag = "Terminate" -> [tag |-> "Terminate", reason |-> "Abi"]
      [] x.tag = "Cleanup" -> [tag |-> "Cleanup", block |-> x.block]

\* A translator that collects the branches last to first.
SwitchTargets_internal_reversed(x) ==
    [branches |-> [i \in 1..Len(x.branches) |->
                      [value |-> x.branches[Len(x.branches) + 1 - i].value,
                       target |-> x.branches[Len(x.branches) + 1 - i].target]],
     otherwise |-> x.otherwise]

\* impl RustcInternal for SwitchTargets
SwitchTargets_internal(x) ==
    [branches |-> [i \in 1..Len(x.branches) |->
                      [value |-> x.branches[i].value, target |-> x.branches[i].target]],
     otherwise |-> x.otherwise]

(***************************************************************************)
(* Type-system translators.                                                *)
(***************************************************************************)
\* tcx.lift of a generic argument lifts what the argument packs.
LiftGenericArg(a) ==
    CASE a.tag = "GenericArg::Lifetime" -> Ok(a)
      [] a.tag = "GenericArg::Type" ->
            Then1(Lift(a.ty), LAMBDA h : [tag |-> "GenericArg::Type", ty |-> h])
      [] a.tag = "GenericArg::Const" ->
            Then1(Lift(a.ct), LAMBDA h : [tag |-> "GenericArg::Const", ct |-> h])

\* An argument translation that looks a def id up for a lifetime.
GenericArgKind_internal_peeking(t, a) ==
    LET packed ==
            CASE a.tag = "Lifetime" ->
                    Then2(DefId_internal(t, 0), Region_internal(t, a.region),
                          LAMBDA d, r : [tag |-> "GenericArg::Lifetime", region |-> r])
              [] a.tag = "Type" ->
                    Then1(Ty_internal(t, a.ty),
                          LAMBDA h : [tag |-> "GenericArg::Type", ty |-> h])
              [] a.tag = "Const" ->
                    Then1(TyConst_internal(t, a.cnst),
                          LAMBDA h : [tag |-> "GenericArg::Const", ct |-> h])
    IN  IF ~packed.ok THEN packed ELSE LiftGenericArg(packed.val)

\* impl RustcInternal for GenericArgKind
GenericArgKind_internal(t, a) ==
    LET packed ==
            CASE a.tag = "Lifetime" ->
                    Then1(Region_internal(t, a.region),
                          LAMBDA r : [tag |-> "GenericArg::Lifetime", region |-> r])
              [] a.tag = "Type" ->
                    Then1(Ty_internal(t, a.ty),
                          LAMBDA h : [tag |-> "GenericArg::Type", ty |-> h])
              [] a.tag = "Const" ->
                    Then1(TyConst_internal(t, a.cnst),
                          LAMBDA h : [tag |-> "GenericArg::Const", ct |-> h])
    IN  IF ~packed.ok THEN packed ELSE LiftGenericArg(packed.val)

\* A list translation that leaves out the arguments that do not translate.
GenericArgs_internal_lenient(t, args) ==
    LET rs == [i \in 1..Len(args) |-> GenericArgKind_internal(t, args[i])]
        kept == SelectSeq(rs, LAMBDA r : r.ok)
    IN  Ok([i \in 1..Len(kept) |-> kept[i].val])

\* impl RustcInternal for GenericArgs: tcx.mk_args_from_iter over the
\* translated elements.
GenericArgs_internal(t, args) ==
    MapCollect(args, LAMBDA a : GenericArgKind_internal(t, a))

\* impl<T> RustcInternal for Option<T>, at T = TyConst
OptionTyConst_internal(t, o) ==
    IF o.some
    THEN Then1(TyConst_internal(t, o.cnst), LAMBDA h : [some |-> TRUE, ct |-> h])
    ELSE Ok([some |-> FALSE])

\* impl RustcInternal for Pattern
Pattern_internal(t, p) ==
    Then2(OptionTyConst_internal(t, p.start), OptionTyConst_internal(t, p.end),
          LAMBDA s, e : [tag |-> "PatternKind::Range", start |-> s, end |-> e,
                         include_end |-> p.include_end])

\* impl<T> RustcInternal for Vec<T>, at T = Ty
VecTy_internal(t, tys) == MapCollect(tys, LAMBDA ty : Ty_internal(t, ty))

\* impl RustcInternal for FnSig: the signature is lifted as a whole after it
\* is built from lifted types.
FnSig_internal(t, sig) ==
    LET tys == VecTy_internal(t, sig.inputs_and_output)
        lifted == IF ~tys.ok THEN tys ELSE MapCollect(tys.val, Lift)
    IN  Then1(lifted,
              LAMBDA l : [tag |-> "FnSig", inputs_and_output |-> l,
                          c_variadic |-> sig.c_variadic,
                          safety |-> Safety_internal(sig.safety),
                          abi |-> Abi_internal(sig.abi)])

\* impl RustcInternal for BoundVariableKind
BoundVariableKind_internal(t, b) ==
    CASE b.tag = "Ty" /\ b.kind = "Anon" -> Ok([tag |-> "Ty", kind |-> "Anon"])
      [] b.tag = "Ty" /\ b.kind = "Param" ->
            Then1(DefId_internal(t, b.def),
                  LAMBDA d : [tag |-> "Ty", kind |-> "Param", def |-> d, symbol |-> b.symbol])
      [] b.tag = "Region" /\ b.kind = "BrAnon" -> Ok([tag |-> "Region", kind |-> "BrAnon"])
      [] b.tag = "Region" /\ b.kind = "BrNamed" ->
            Then1(DefId_internal(t, b.def),
                  LAMBDA d : [tag |-> "Region", kind |-> "BrNamed", def |-> d,
                              symbol |-> b.symbol])
      [] b.tag = "Region" /\ b.kind = "BrEnv" -> Ok([tag |-> "Region", kind |-> "BrEnv"])
      [] b.tag = "Const" -> Ok([tag |-> "Const"])

\* impl RustcInternal for TermKind
TermKind_internal(t, term) ==
    CASE term.tag = "Type" ->
            Then1(Ty_internal(t, term.ty), LAMBDA h : [tag |-> "Term::Ty", ty |-> h])
      [] term.tag = "Const" ->
            Then1(TyConst_internal(t, term.cnst), LAMBDA h : [tag |-> "Term::Const", ct |-> h])

\* impl RustcInternal for ExistentialTraitRef
ExistentialTraitRef_internal(t, r) ==
    Then2(DefId_internal(t, r.def_id), GenericArgs_internal(t, r.generic_args),
          LAMBDA d, a : [tag |-> "ExistentialTraitRef", def_id |-> d, args |-> a])

\* impl RustcInternal for ExistentialProjection
ExistentialProjection_internal(t, p) ==
    Then3(DefId_internal(t, p.def_id), GenericArgs_internal(t, p.generic_args),
          TermKind_internal(t, p.term),
          LAMBDA d, a, m : [tag |-> "ExistentialProjection", def_id |-> d, args |-> a,
                            term |-> m])

\* impl RustcInternal for ExistentialPredicate
ExistentialPredicate_internal(t, p) ==
    CASE p.tag = "Trait" ->
            Then1(ExistentialTraitRef_internal(t, p.trait_ref),
                  LAMBDA r : [tag |-> "ExistentialPredicate::Trait", trait_ref |-> r])
      [] p.tag = "Projection" ->
            Then1(ExistentialProjection_internal(t, p.proj),
                  LAMBDA r : [tag |-> "ExistentialPredicate::Projection", proj |-> r])
      [] p.tag = "AutoTrait" ->
            Then1(DefId_internal(t, p.trait_def),
                  LAMBDA d : [tag |-> "ExistentialPredicate::AutoTrait", trait_def |-> d])

\* impl<T> RustcInternal for Binder<T>, at T = ExistentialPredicate: the
\* value first, then the bound variables.
Binder_internal(t, b) ==
    Then2(ExistentialPredicate_internal(t, b.value),
          MapCollect(b.bound_vars, LAMBDA bv : BoundVariableKind_internal(t, bv)),
          LAMBDA v, bvs : [tag |-> "Binder", value |-> v, bound_vars |-> bvs])

\* impl RustcInternal for TraitRef
TraitRef_internal(t, r) ==
    Then2(DefId_internal(t, r.def_id), GenericArgs_internal(t, r.args),
          LAMBDA d, a : [tag |-> "TraitRef", def_id |-> d, args |-> a])

\* impl RustcInternal for RigidTy
RigidTy_internal(t, ty) ==
    CASE ty.tag = "Bool" -> Ok([tag |-> "TyKind::Bool"])
      [] ty.tag = "Char" -> Ok([tag |-> "TyKind::Char"])
      [] ty.tag = "Int" -> Ok([tag |-> "TyKind::Int", int_ty |-> IntTy_internal(ty.int_ty)])
      [] ty.tag = "Uint" ->
            Ok([tag |-> "TyKind::Uint", uint_ty |-> UintTy_internal(ty.uint_ty)])
      [] ty.tag = "Float" ->
            Ok([tag |-> "TyKind::Float", float_ty |-> FloatTy_internal(ty.float_ty)])
      [] ty.tag = "Never" -> Ok([tag |-> "TyKind::Never"])
      [] ty.tag = "Array" ->
            Then2(Ty_internal(t, ty.ty), TyConst_internal(t, ty.cnst),
                  LAMBDA h, c : [tag |-> "TyKind::Array", ty |-> h, ct |-> c])
      [] ty.tag = "Pat" ->
            Then2(Ty_internal(t, ty.ty), Pattern_internal(t, ty.pat),
                  LAMBDA h, p : [tag |-> "TyKind::Pat", ty |-> h, pat |-> p])
      [] ty.tag = "Adt" ->
            Then2(AdtDef_internal(t, ty.def), GenericArgs_internal(t, ty.args),
                  LAMBDA d, a : [tag |-> "TyKind::Adt", adt |-> d, args |-> a])
      [] ty.tag = "Str" -> Ok([tag |-> "TyKind::Str"])
      [] ty.tag = "Slice" ->
            Then1(Ty_internal(t, ty.ty), LAMBDA h : [tag |-> "TyKind::Slice", ty |-> h])
      [] ty.tag = "RawPtr" ->
            Then1(Ty_internal(t, ty.ty),
                  LAMBDA h : [tag |-> "TyKind::RawPtr", ty |-> h,
                              mutability |-> Mutability_internal(ty.mutability)])
      [] ty.tag = "Ref" ->
            Then2(Region_internal(t, ty.region), Ty_internal(t, ty.ty),
                  LAMBDA r, h : [tag |-> "TyKind::Ref", region |-> r, ty |-> h,
                                 mutability |-> Mutability_internal(ty.mutability)])
      [] ty.tag = "Foreign" ->
            Then1(DefId_internal(t, ty.def), LAMBDA d : [tag |-> "TyKind::Foreign", def |-> d])
      [] ty.tag = "FnDef" ->
            Then2(DefId_internal(t, ty.def), GenericArgs_internal(t, ty.args),
                  LAMBDA d, a : [tag |-> "TyKind::FnDef", def |-> d, args |-> a])
      [] ty.tag = "FnPtr" ->
            Then1(FnSig_internal(t, ty.sig), LAMBDA s : [tag |-> "TyKind::FnPtr", sig |-> s])
      [] ty.tag = "Closure" ->
            Then2(DefId_internal(t, ty.def), GenericArgs_internal(t, ty.args),
                  LAMBDA d, a : [tag |-> "TyKind::Closure", def |-> d, args |-> a])
      [] ty.tag = "Coroutine" ->
            Then2(DefId_internal(t, ty.def), GenericArgs_internal(t, ty.args),
                  LAMBDA d, a : [tag |-> "TyKind::Coroutine", def |-> d, args |-> a])
      [] ty.tag = "CoroutineWitness" ->
            Then2(DefId_internal(t, ty.def), GenericArgs_internal(t, ty.args),
                  LAMBDA d, a : [tag |-> "TyKind::CoroutineWitness", def |-> d, args |-> a])
      [] ty.tag = "Dynamic" ->
            Then2(MapCollect(ty.predicates, LAMBDA b : Binder_internal(t, b)),
                  Region_internal(t, ty.region),
                  LAMBDA ps, r : [tag |-> "TyKind::Dynamic", predicates |-> ps, region |-> r,
                                  dyn_kind |-> DynKind_internal(ty.dyn_kind)])
      [] ty.tag = "Tuple" ->
            Then1(VecTy_internal(t, ty.tys), LAMBDA l : [tag |-> "TyKind::Tuple", tys |-> l])

(***************************************************************************)
(* MIR translators.  An Option<usize> is a sequence of length 0 or 1.      *)
(***************************************************************************)
\* rustc_span::DUMMY_SP
DUMMY_SP == [span |-> "DUMMY_SP"]

\* A source info that forgets the span it is given.
SourceInfo_unknown(sp) == [span |-> DUMMY_SP, scope |-> "OUTERMOST_SOURCE_SCOPE"]

\* SourceInfo::outermost(span)
SourceInfo_outermost(sp) == [span |-> sp, scope |-> "OUTERMOST_SOURCE_SCOPE"]

\* A translator that counts every constant index from the start.
ProjectionElem_internal_fromstart(t, e) ==
    CASE e.tag = "Deref" -> Ok([tag |-> "PlaceElem::Deref"])
      [] e.tag = "Field" ->
            Then1(Ty_internal(t, e.ty),
                  LAMBDA h : [tag |-> "PlaceElem::Field", field |-> e.field, ty |-> h])
      [] e.tag = "Index" -> Ok([tag |-> "PlaceElem::Index", local |-> e.local])
      [] e.tag = "ConstantIndex" ->
            Ok([tag |-> "PlaceElem::ConstantIndex", offset |-> e.offset,
                min_length |-> e.min_length, from_end |-> FALSE])
      [] e.tag = "Subslice" ->
            Ok([tag |-> "PlaceElem::Subslice", from |-> e.from, to |-> e.to,
                from_end |-> e.from_end])
      [] e.tag = "Downcast" ->
            Ok([tag |-> "PlaceElem::Downcast", name |-> <<>>,
                variant |-> VariantIdx_internal(e.variant)])
      [] e.tag = "OpaqueCast" ->
            Then1(Ty_internal(t, e.ty), LAMBDA h : [tag |-> "PlaceElem::OpaqueCast", ty |-> h])
      [] e.tag = "Subtype" ->
            Then1(Ty_internal(t, e.ty), LAMBDA h : [tag |-> "PlaceElem::Subtype", ty |-> h])

\* impl RustcInternal for ProjectionElem
ProjectionElem_internal(t, e) ==
    CASE e.tag = "Deref" -> Ok([tag |-> "PlaceElem::Deref"])
      [] e.tag = "Field" ->
            Then1(Ty_internal(t, e.ty),
                  LAMBDA h : [tag |-> "PlaceElem::Field", field |-> e.field, ty |-> h])
      [] e.tag = "Index" -> Ok([tag |-> "PlaceElem::Index", local |-> e.local])
      [] e.tag = "ConstantIndex" ->
            Ok([tag |-> "PlaceElem::ConstantIndex", offset |-> e.offset,
                min_length |-> e.min_length, from_end |-> e.from_end])
      [] e.tag = "Subslice" ->
            Ok([tag |-> "PlaceElem::Subslice", from |-> e.from, to |-> e.to,
                from_end |-> e.from_end])
      [] e.tag = "Downcast" ->
            Ok([tag |-> "PlaceElem::Downcast", name |-> <<>>,
                variant |-> VariantIdx_internal(e.variant)])
      [] e.tag = "OpaqueCast" ->
            Then1(Ty_internal(t, e.ty), LAMBDA h : [tag |-> "PlaceElem::OpaqueCast", ty |-> h])
      [] e.tag = "Subtype" ->
            Then1(Ty_internal(t, e.ty), LAMBDA h : [tag |-> "PlaceElem::Subtype", ty |-> h])

\* A translator that keeps the local and forgets the projection.
Place_internal_noprojection(t, p) == Ok([local |-> p.local, projection |-> <<>>])

\* impl RustcInternal for Place
Place_internal(t, p) ==
    Then1(MapCollect(p.projection, LAMBDA e : ProjectionElem_internal(t, e)),
          LAMBDA es : [local |-> p.local, projection |-> es])

\* impl RustcInternal for AggregateKind
AggregateKind_internal(t, k) ==
    CASE k.tag = "Array" ->
            Then1(Ty_internal(t, k.ty), LAMBDA h : [tag |-> "AggregateKind::Array", ty |-> h])
      [] k.tag = "Tuple" -> Ok([tag |-> "AggregateKind::Tuple"])
      [] k.tag = "Adt" ->
            Then2(DefId_internal(t, k.def), GenericArgs_internal(t, k.args),
                  LAMBDA d, a : [tag |-> "AggregateKind::Adt", def |-> d,
                                 variant |-> VariantIdx_internal(k.variant), args |-> a,
                                 user_ty |-> k.user_ty, field |-> k.field])
      [] k.tag = "Closure" ->
            Then2(DefId_internal(t, k.def), GenericArgs_internal(t, k.args),
                  LAMBDA d, a : [tag |-> "AggregateKind::Closure", def |-> d, args |-> a])
      [] k.tag = "Coroutine" ->
            Then2(DefId_internal(t, k.def), GenericArgs_internal(t, k.args),
                  LAMBDA d, a : [tag |-> "AggregateKind::Coroutine", def |-> d, args |-> a])
      [] k.tag = "RawPtr" ->
            Then1(Ty_internal(t, k.ty),
                  LAMBDA h : [tag |-> "AggregateKind::RawPtr", ty |-> h,
                              mutability |-> Mutability_internal(k.mutability)])

\* impl RustcInternal for ConstOperand: the span, then the constant.
ConstOperand_internal(t, c) ==
    Then2(Span_internal(t, c.span), MirConst_internal(t, c.const_),
          LAMBDA sp, k : [span |-> sp, user_ty |-> c.user_ty, const_ |-> k])

\* impl RustcInternal for Operand
Operand_internal(t, o) ==
    CASE o.tag = "Copy" ->
            Then1(Place_internal(t, o.place), LAMBDA p : [tag |-> "Operand::Copy", place |-> p])
      [] o.tag = "Move" ->
            Then1(Place_internal(t, o.place), LAMBDA p : [tag |-> "Operand::Move", place |-> p])
      [] o.tag = "Constant" ->
            Then1(ConstOperand_internal(t, o.constant),
                  LAMBDA c : [tag |-> "Operand::Constant", constant |-> c])

\* impl RustcInternal for NullOp
NullOp_internal(x) ==
    CASE x.tag = "SizeOf" -> [tag |-> "SizeOf"]
      [] x.tag = "AlignOf" -> [tag |-> "AlignOf"]
      [] x.tag = "OffsetOf" ->
            [tag |-> "OffsetOf",
             offsets |-> [i \in 1..Len(x.offsets) |->
                            <<VariantIdx_internal(x.offsets[i][1]), x.offsets[i][2]>>]]
      [] x.tag = "UbChecks" -> [tag |-> "UbChecks"]

\* An arm that keeps the checked form apart, as an operator with overflow.
Rvalue_BinaryOp_arm_kept(t, rv) ==
    Then2(Operand_internal(t, rv.left), Operand_internal(t, rv.right),
          LAMBDA l, r : [tag |-> IF rv.tag = "CheckedBinaryOp"
                                 THEN "Rvalue::CheckedBinaryOp"
                                 ELSE "Rvalue::BinaryOp",
                         op |-> BinOp_internal(rv.op), left |-> l, right |-> r])

\* Rvalue::internal, the arm of BinaryOp | CheckedBinaryOp: both stable
\* variants build the internal BinaryOp.
Rvalue_BinaryOp_arm(t, rv) ==
    Then2(Operand_internal(t, rv.left), Operand_internal(t, rv.right),
          LAMBDA l, r : [tag |-> "Rvalue::BinaryOp", op |-> BinOp_internal(rv.op),
                         left |-> l, right |-> r])

\* impl RustcInternal for Rvalue
Rvalue_internal(t, rv) ==
    CASE rv.tag = "AddressOf" ->
            Then1(Place_internal(t, rv.place),
                  LAMBDA p : [tag |-> "Rvalue::AddressOf",
                              mutability |-> Mutability_internal(rv.mutability), place |-> p])
      [] rv.tag = "Aggregate" ->
            Then2(AggregateKind_internal(t, rv.kind),
                  MapCollect(rv.operands, LAMBDA o : Operand_internal(t, o)),
                  LAMBDA k, os : [tag |-> "Rvalue::Aggregate", kind |-> k, operands |-> os])
      [] rv.tag \in {"BinaryOp", "CheckedBinaryOp"} -> Rvalue_BinaryOp_arm(t, rv)
      [] rv.tag = "Cast" ->
            Then2(Operand_internal(t, rv.operand), Ty_internal(t, rv.ty),
                  LAMBDA o, h : [tag |-> "Rvalue::Cast", kind |-> CastKind_internal(rv.kind),
                                 operand |-> o, ty |-> h])
      [] rv.tag = "CopyForDeref" ->
            Then1(Place_internal(t, rv.place),
                  LAMBDA p : [tag |-> "Rvalue::CopyForDeref", place |-> p])
      [] rv.tag = "Discriminant" ->
            Then1(Place_internal(t, rv.place),
                  LAMBDA p : [tag |-> "Rvalue::Discriminant", place |-> p])
      [] rv.tag = "Len" ->
            Then1(Place_internal(t, rv.place), LAMBDA p : [tag |-> "Rvalue::Len", place |-> p])
      [] rv.tag = "Ref" ->
            Then2(Region_internal(t, rv.region), Place_internal(t, rv.place),
                  LAMBDA r, p : [tag |-> "Rvalue::Ref", region |-> r,
                                 borrow_kind |-> BorrowKind_internal(rv.borrow_kind),
                                 place |-> p])
      [] rv.tag = "Repeat" ->
            Then2(Operand_internal(t, rv.operand), TyConst_internal(t, rv.cnst),
                  LAMBDA o, c : [tag |-> "Rvalue::Repeat", operand |-> o, ct |-> c])
      [] rv.tag = "ShallowInitBox" ->
            Then2(Operand_internal(t, rv.operand), Ty_internal(t, rv.ty),
                  LAMBDA o, h : [tag |-> "Rvalue::ShallowInitBox", operand |-> o, ty |-> h])
      [] rv.tag = "ThreadLocalRef" ->
            Then1(DefId_internal(t, rv.item),
                  LAMBDA d : [tag |-> "Rvalue::ThreadLocalRef", def |-> d])
      [] rv.tag = "NullaryOp" ->
            Then1(Ty_internal(t, rv.ty),
                  LAMBDA h : [tag |-> "Rvalue::NullaryOp", null_op |-> NullOp_internal(rv.null_op),
                              ty |-> h])
      [] rv.tag = "UnaryOp" ->
            Then1(Operand_internal(t, rv.operand),
                  LAMBDA o : [tag |-> "Rvalue::UnaryOp", op |-> UnOp_internal(rv.op),
                              operand |-> o])
      [] rv.tag = "Use" ->
            Then1(Operand_internal(t, rv.operand),
                  LAMBDA o : [tag |-> "Rvalue::Use", operand |-> o])

\* impl RustcInternal for CopyNonOverlapping
CopyNonOverlapping_internal(t, c) ==
    Then3(Operand_internal(t, c.src), Operand_internal(t, c.dst),
          Operand_internal(t, c.count),
          LAMBDA s, d, n : [src |-> s, dst |-> d, count |-> n])

\* impl RustcInternal for NonDivergingIntrinsic
NonDivergingIntrinsic_internal(t, i) ==
    CASE i.tag = "Assume" ->
            Then1(Operand_internal(t, i.operand),
                  LAMBDA o : [tag |-> "NonDivergingIntrinsic::Assume", operand |-> o])
      [] i.tag = "CopyNonOverlapping" ->
            Then1(CopyNonOverlapping_internal(t, i.copy),
                  LAMBDA c : [tag |-> "NonDivergingIntrinsic::CopyNonOverlapping", copy |-> c])

\* impl RustcInternal for StatementKind
StatementKind_internal(t, k) ==
    CASE k.tag = "Assign" ->
            Then2(Place_internal(t, k.place), Rvalue_internal(t, k.rvalue),
                  LAMBDA p, r : [tag |-> "StatementKind::Assign", place |-> p, rvalue |-> r])
      [] k.tag = "FakeRead" ->
            Then2(FakeReadCause_internal(k.cause), Place_internal(t, k.place),
                  LAMBDA c, p : [tag |-> "StatementKind::FakeRead", cause |-> c, place |-> p])
      [] k.tag = "SetDiscriminant" ->
            Then1(Place_internal(t, k.place),
                  LAMBDA p : [tag |-> "StatementKind::SetDiscriminant", place |-> p,
                              variant_index |-> VariantIdx_internal(k.variant_index)])
      [] k.tag = "Deinit" ->
            Then1(Place_internal(t, k.place),
                  LAMBDA p : [tag |-> "StatementKind::Deinit", place |-> p])
      [] k.tag = "StorageLive" -> Ok([tag |-> "StatementKind::StorageLive", local |-> k.local])
      [] k.tag = "StorageDead" -> Ok([tag |-> "StatementKind::StorageDead", local |-> k.local])
      [] k.tag = "Retag" ->
            Then1(Place_internal(t, k.place),
                  LAMBDA p : [tag |-> "StatementKind::Retag",
                              retag_kind |-> RetagKind_internal(k.retag_kind), place |-> p])
      [] k.tag = "PlaceMention" ->
            Then1(Place_internal(t, k.place),
                  LAMBDA p : [tag |-> "StatementKind::PlaceMention", place |-> p])
      [] k.tag = "AscribeUserType" ->
            Then2(Place_internal(t, k.place), UserTypeProjection_internal(k.projections),
                  LAMBDA p, u : [tag |-> "StatementKind::AscribeUserType", place |-> p,
                                 projections |-> u,
                                 variance |-> Variance_internal(k.variance)])
      [] k.tag = "Coverage" -> Fail(UnsupportedConstruct, OpaqueFieldMsg)
      [] k.tag = "Intrinsic" ->
            Then1(NonDivergingIntrinsic_internal(t, k.intrinsic),
                  LAMBDA i : [tag |-> "StatementKind::Intrinsic", intrinsic |-> i])
      [] k.tag = "ConstEvalCounter" -> Ok([tag |-> "StatementKind::ConstEvalCounter"])
      [] k.tag = "Nop" -> Ok([tag |-> "StatementKind::Nop"])

\* A statement translation that lets an AscribeUserType through without its
\* projections.
Statement_internal_ascribing(t, s) ==
    IF s.kind.tag = "AscribeUserType"
    THEN Then2(Span_internal(t, s.span), Place_internal(t, s.kind.place),
               LAMBDA sp, p : [source_info |-> SourceInfo_outermost(sp),
                               kind |-> [tag |-> "StatementKind::AscribeUserType",
                                         place |-> p, projections |-> <<>>]])
    ELSE Then2(Span_internal(t, s.span), StatementKind_internal(t, s.kind),
               LAMBDA sp, k : [source_info |-> SourceInfo_outermost(sp), kind |-> k])

\* impl RustcInternal for Statement: the span, then the kind.
Statement_internal(t, s) ==
    Then2(Span_internal(t, s.span), StatementKind_internal(t, s.kind),
          LAMBDA sp, k : [source_info |-> SourceInfo_outermost(sp), kind |-> k])

\* impl RustcInternal for AssertMessage
AssertMessage_internal(t, m) ==
    CASE m.tag = "BoundsCheck" ->
            Then2(Operand_internal(t, m.len), Operand_internal(t, m.index),
                  LAMBDA l, i : [tag |-> "AssertMessage::BoundsCheck", len |-> l, index |-> i])
      [] m.tag = "Overflow" ->
            Then2(Operand_internal(t, m.left), Operand_internal(t, m.right),
                  LAMBDA l, r : [tag |-> "AssertMessage::Overflow",
                                 op |-> BinOp_internal(m.op), left |-> l, right |-> r])
      [] m.tag = "OverflowNeg" ->
            Then1(Operand_internal(t, m.operand),
                  LAMBDA o : [tag |-> "AssertMessage::OverflowNeg", operand |-> o])
      [] m.tag = "DivisionByZero" ->
            Then1(Operand_internal(t, m.operand),
                  LAMBDA o : [tag |-> "AssertMessage::DivisionByZero", operand |-> o])
      [] m.tag = "RemainderByZero" ->
            Then1(Operand_internal(t, m.operand),
                  LAMBDA o : [tag |-> "AssertMessage::RemainderByZero", operand |-> o])
      [] m.tag = "ResumedAfterReturn" ->
            Ok([tag |-> "AssertMessage::ResumedAfterReturn",
                coroutine_kind |-> CoroutineKind_internal(m.coroutine_kind)])
      [] m.tag = "ResumedAfterPanic" ->
            Ok([tag |-> "AssertMessage::ResumedAfterPanic",
                coroutine_kind |-> CoroutineKind_internal(m.coroutine_kind)])
      [] m.tag = "MisalignedPointerDereference" ->
            Then2(Operand_internal(t, m.required), Operand_internal(t, m.found),
                  LAMBDA r, f : [tag |-> "AssertMessage::MisalignedPointerDereference",
                                 required |-> r, found |-> f])

\* impl RustcInternal for TerminatorKind
TerminatorKind_internal(t, k) ==
    CASE k.tag = "Goto" -> Ok([tag |-> "TerminatorKind::Goto", target |-> k.target])
      [] k.tag = "SwitchInt" ->
            Then1(Operand_internal(t, k.discr),
                  LAMBDA d : [tag |-> "TerminatorKind::SwitchInt", discr |-> d,
                              targets |-> SwitchTargets_internal(k.targets)])
      [] k.tag = "Resume" -> Ok([tag |-> "TerminatorKind::UnwindResume"])
      [] k.tag = "Abort" -> Ok([tag |-> "TerminatorKind::UnwindTerminate", reason |-> "Abi"])
      [] k.tag = "Return" -> Ok([tag |-> "TerminatorKind::Return"])
      [] k.tag = "Unreachable" -> Ok([tag |-> "TerminatorKind::Unreachable"])
      [] k.tag = "Drop" ->
            Then1(Place_internal(t, k.place),
                  LAMBDA p : [tag |-> "TerminatorKind::Drop", place |-> p,
                              target |-> k.target,
                              unwind |-> UnwindAction_internal(k.unwind),
                              replace |-> FALSE])
      [] k.tag = "Call" ->
            Then3(Operand_internal(t, k.func),
                  MapCollect(k.args,
                             LAMBDA a : Then1(Operand_internal(t, a),
                                              LAMBDA o : [node |-> o, span |-> DUMMY_SP])),
                  Place_internal(t, k.destination),
                  LAMBDA f, as, d : [tag |-> "TerminatorKind::Call", func |-> f, args |-> as,
                                     destination |-> d, target |-> k.target,
                                     unwind |-> UnwindAction_internal(k.unwind),
                                     call_source |-> "Misc", fn_span |-> DUMMY_SP])
      [] k.tag = "Assert" ->
            Then2(Operand_internal(t, k.cond), AssertMessage_internal(t, k.msg),
                  LAMBDA c, m : [tag |-> "TerminatorKind::Assert", cond |-> c,
                                 expected |-> k.expected, msg |-> m, target |-> k.target,
                                 unwind |-> UnwindAction_internal(k.unwind)])
      [] k.tag = "InlineAsm" -> Fail(UnsupportedConstruct, TodoMsg)

\* A terminator translation that takes the kind before the span.
Terminator_internal_kindfirst(t, term) ==
    Then2(TerminatorKind_internal(t, term.kind), Span_internal(t, term.span),
          LAMBDA k, sp : [source_info |-> SourceInfo_outermost(sp), kind |-> k])

\* impl RustcInternal for Terminator: the span, then the kind.
Terminator_internal(t, term) ==
    Then2(Span_internal(t, term.span), TerminatorKind_internal(t, term.kind),
          LAMBDA sp, k : [source_info |-> SourceInfo_outermost(sp), kind |-> k])

\* A translator that takes the stable type index for a user type.
LocalDecl_internal_annotated(t, d) ==
    Then2(Ty_internal(t, d.ty), Span_internal(t, d.span),
          LAMBDA h, sp : [mutability |-> Mutability_internal(d.mutability),
                          local_info |-> "Boring", ty |-> h, user_ty |-> <<d.ty>>,
                          source_info |-> SourceInfo_outermost(sp)])

\* impl RustcInternal for LocalDecl: the type, then the span.
LocalDecl_internal(t, d) ==
    Then2(Ty_internal(t, d.ty), Span_internal(t, d.span),
          LAMBDA h, sp : [mutability |-> Mutability_internal(d.mutability),
                          local_info |-> "Boring", ty |-> h, user_ty |-> <<>>,
                          source_info |-> SourceInfo_outermost(sp)])

\* A block translation that marks a block without statements as cleanup.
BasicBlock_internal_marking(t, b) ==
    Then2(MapCollect(b.statements, LAMBDA s : Statement_internal(t, s)),
          Terminator_internal(t, b.terminator),
          LAMBDA ss, term : [statements |-> ss, terminator |-> <<term>>,
                             is_cleanup |-> (ss = <<>>)])

\* A block translation that drops the statements it cannot translate.
BasicBlock_internal_lenient(t, b) ==
    LET rs == [i \in 1..Len(b.statements) |-> Statement_internal(t, b.statements[i])]
        kept == SelectSeq(rs, LAMBDA r : r.ok)
    IN  Then1(Terminator_internal(t, b.terminator),
              LAMBDA term : [statements |-> [i \in 1..Len(kept) |-> kept[i].val],
                             terminator |-> <<term>>, is_cleanup |-> FALSE])

\* One basic block of Body::internal: the statements, then the terminator.
BasicBlock_internal(t, b) ==
    Then2(MapCollect(b.statements, LAMBDA s : Statement_internal(t, s)),
          Terminator_internal(t, b.terminator),
          LAMBDA ss, term : [statements |-> ss, terminator |-> <<term>>,
                             is_cleanup |-> FALSE])

\* A body translation that collects the local declarations last to first.
Body_internal_unordered(t, body) ==
    Then2(MapCollect(body.blocks, LAMBDA b : BasicBlock_internal(t, b)),
          MapCollect(body.locals, LAMBDA d : LocalDecl_internal(t, d)),
          LAMBDA bbs, decls :
              [source |-> "CRATE_DEF_ID",
               basic_blocks |-> bbs,
               source_scopes |-> <<>>,
               local_decls |-> [i \in 1..Len(decls) |-> decls[Len(decls) + 1 - i]],
               user_type_annotations |-> <<>>,
               arg_count |-> body.arg_count,
               var_debug_info |-> <<>>,
               span |-> DUMMY_SP,
               coroutine |-> <<>>,
               tainted_by_errors |-> <<>>])

\* A body translation that passes no argument count on.
Body_internal_noargs(t, body) ==
    Then2(MapCollect(body.blocks, LAMBDA b : BasicBlock_internal(t, b)),
          MapCollect(body.locals, LAMBDA d : LocalDecl_internal(t, d)),
          LAMBDA bbs, decls :
              [source |-> "CRATE_DEF_ID",
               basic_blocks |-> bbs,
               source_scopes |-> <<>>,
               local_decls |-> decls,
               user_type_annotations |-> <<>>,
               arg_count |-> 0,
               var_debug_info |-> <<>>,
               span |-> DUMMY_SP,
               coroutine |-> <<>>,
               tainted_by_errors |-> <<>>])

\* impl RustcInternal for Body: the blocks, then the local declarations, then
\* Body::new with the bookkeeping tables empty.
Body_internal(t, body) ==
    Then2(MapCollect(body.blocks, LAMBDA b : BasicBlock_internal(t, b)),
          MapCollect(body.locals, LAMBDA d : LocalDecl_internal(t, d)),
          LAMBDA bbs, decls :
              [source |-> "CRATE_DEF_ID",
               basic_blocks |-> bbs,
               source_scopes |-> <<>>,
               local_decls |-> decls,
               user_type_annotations |-> <<>>,
               arg_count |-> body.arg_count,
               var_debug_info |-> <<>>,
               span |-> DUMMY_SP,
               coroutine |-> <<>>,
               tainted_by_errors |-> <<>>])

(***************************************************************************)
(* Stable values fed to the translators.                                   *)
(***************************************************************************)
BinOps ==
    {"Add", "AddUnchecked", "Sub", "SubUnchecked", "Mul", "MulUnchecked", "Div",
     "Rem", "BitXor", "BitAnd", "BitOr", "Shl", "ShlUnchecked", "Shr",
     "ShrUnchecked", "Eq", "Lt", "Le", "Ne", "Ge", "Gt", "Cmp", "Offset"}

RegionKinds == {"ReEarlyParam", "ReBound", "ReStatic", "RePlaceholder", "ReErased"}

Regions == {[kind |-> k] : k \in RegionKinds}

TyConsts == {[kind |-> k, id |-> i] : k \in {"Param", "Value"}, i \in Idx}

MirConsts == {[kind |-> k, ty |-> 0, id |-> i] : k \in {"Allocated", "ZeroSized"}, i \in Idx}

Instances == {[kind |-> k, def |-> i] : k \in {"Item", "Virtual"}, i \in Idx}

LifetimeArg(k) == [tag |-> "Lifetime", region |-> [kind |-> k]]

TypeArg(i) == [tag |-> "Type", ty |-> i]

ConstArg(i) == [tag |-> "Const", cnst |-> [kind |-> "Param", id |-> i]]

GenericArgKinds ==
    {LifetimeArg("ReBound")}
    \cup {TypeArg(i) : i \in Idx} \cup {ConstArg(i) : i \in {0, MaxReg}}

\* Argument lists used inside larger values.
ArgsSmall ==
    {<<>>, <<TypeArg(0)>>, <<LifetimeArg("ReBound"), TypeArg(MaxReg - 1)>>,
     <<ConstArg(0), TypeArg(MaxReg)>>}

NoneConst == [some |-> FALSE]

SomeConst(i) == [some |-> TRUE, cnst |-> [kind |-> "Value", id |-> i]]

Patterns ==
    {[tag |-> "Range", start |-> s, end |-> e, include_end |-> b] :
        s \in {NoneConst, SomeConst(0)}, e \in {NoneConst, SomeConst(MaxReg)},
        b \in BOOLEAN}

FnSigs ==
    {[inputs_and_output |-> io, c_variadic |-> v, safety |-> "Safe", abi |-> a] :
        io \in {<<0>>, <<0, MaxReg>>, <<MaxReg - 1, 0>>}, v \in BOOLEAN,
        a \in {[tag |-> "Rust"], [tag |-> "C", unwind |-> TRUE],
               [tag |-> "C", unwind |-> FALSE]}}

TraitPredicate(d, args) ==
    [value |-> [tag |-> "Trait", trait_ref |-> [def_id |-> d, generic_args |-> args]],
     bound_vars |-> <<>>]

AutoTraitPredicate(d) ==
    [value |-> [tag |-> "AutoTrait", trait_def |-> d],
     bound_vars |-> <<[tag |-> "Region", kind |-> "BrAnon"]>>]

ProjectionPredicate(d, args, ty) ==
    [value |-> [tag |-> "Projection",
                proj |-> [def_id |-> d, generic_args |-> args,
                          term |-> [tag |-> "Type", ty |-> ty]]],
     bound_vars |-> <<[tag |-> "Ty", kind |-> "Param", def |-> d, symbol |-> "T"]>>]

PredicateLists ==
    {<<>>,
     <<TraitPredicate(0, <<LifetimeArg("ReBound")>>)>>,
     <<AutoTraitPredicate(0), ProjectionPredicate(0, <<TypeArg(0)>>, MaxReg - 1)>>,
     <<TraitPredicate(MaxReg, <<>>)>>}

RigidTys ==
    {[tag |-> g] : g \in {"Bool", "Char", "Never", "Str"}}
    \cup {[tag |-> "Int", int_ty |-> "I32"], [tag |-> "Uint", uint_ty |-> "Usize"],
          [tag |-> "Float", float_ty |-> "F16"]}
    \cup {[tag |-> "Array", ty |-> i, cnst |-> [kind |-> "Value", id |-> j]] :
            i \in Idx, j \in {0, MaxReg}}
    \cup {[tag |-> "Pat", ty |-> 0, pat |-> p] : p \in Patterns}
    \cup {[tag |-> "Adt", def |-> d, args |-> a] : d \in Idx, a \in ArgsSmall}
    \cup {[tag |-> "Slice", ty |-> i] : i \in Idx}
    \cup {[tag |-> "RawPtr", ty |-> i, mutability |-> m] : i \in Idx, m \in {"Not", "Mut"}}
    \cup {[tag |-> "Ref", region |-> r, ty |-> i, mutability |-> m] :
            r \in Regions, i \in Idx, m \in {"Not", "Mut"}}
    \cup {[tag |-> "Foreign", def |-> d] : d \in Idx}
    \cup {[tag |-> g, def |-> 0, args |-> a] :
            g \in {"FnDef", "Closure", "CoroutineWitness"}, a \in ArgsSmall}
    \cup {[tag |-> "Coroutine", def |-> 0, args |-> a, movability |-> m] :
            a \in ArgsSmall, m \in {"Static", "Movable"}}
    \cup {[tag |-> "FnPtr", sig |-> sg] : sg \in FnSigs}
    \cup {[tag |-> "Dynamic", predicates |-> ps, region |-> r, dyn_kind |-> k] :
            ps \in PredicateLists, r \in Regions, k \in {"Dyn", "DynStar"}}
    \cup {[tag |-> "Tuple", tys |-> tys] : tys \in SeqUpTo(Idx, MaxLen)}

MonoItems ==
    {[tag |-> "Fn", instance |-> i] : i \in Instances}
    \cup {[tag |-> "Static", def |-> d] : d \in Idx}
    \cup {[tag |-> "GlobalAsm", asm |-> a] : a \in {"nop", "ret"}}

ProjectionElems ==
    {[tag |-> "Deref"], [tag |-> "Index", local |-> 1],
     [tag |-> "ConstantIndex", offset |-> 1, min_length |-> 2, from_end |-> TRUE],
     [tag |-> "Subslice", from |-> 1, to |-> 3, from_end |-> FALSE],
     [tag |-> "Downcast", variant |-> 1],
     [tag |-> "OpaqueCast", ty |-> 0], [tag |-> "Subtype", ty |-> MaxReg]}
    \cup {[tag |-> "Field", field |-> 2, ty |-> i] : i \in Idx}

\* Projection elements that places chain: one without payload, one with a
\* variant, one with a type that is registered first and one with a type
\* that is registered last.
ProjectionElemsChained ==
    {[tag |-> "Deref"], [tag |-> "Downcast", variant |-> 1],
     [tag |-> "Field", field |-> 2, ty |-> 0], [tag |-> "Subtype", ty |-> MaxReg]}

Places ==
    {[local |-> l, projection |-> <<e>>] : l \in {0, 1}, e \in ProjectionElems}
    \cup {[local |-> 0, projection |-> es] : es \in SeqUpTo(ProjectionElemsChained, MaxLen)}

\* Places used inside larger values: the last one never translates.
PlacesSmall ==
    {[local |-> 0, projection |-> <<>>],
     [local |-> 1, projection |-> <<[tag |-> "Field", field |-> 2, ty |-> 0]>>],
     [local |-> 1, projection |-> <<[tag |-> "Deref"],
                                    [tag |-> "Subtype", ty |-> MaxReg]>>]}

ConstOperands ==
    {[span |-> sp, user_ty |-> u, const_ |-> c] :
        sp \in Idx, u \in {<<>>, <<1>>}, c \in MirConsts}

Operands ==
    {[tag |-> g, place |-> p] : g \in {"Copy", "Move"}, p \in PlacesSmall}
    \cup {[tag |-> "Constant", constant |-> c] : c \in ConstOperands}

O1 == [tag |-> "Copy", place |-> [local |-> 0, projection |-> <<>>]]

O2 ==
    [tag |-> "Move",
     place |-> [local |-> 1, projection |-> <<[tag |-> "Field", field |-> 2, ty |-> 0]>>]]

O3 ==
    [tag |-> "Constant",
     constant |-> [span |-> MaxReg - 1, user_ty |-> <<1>>,
                   const_ |-> [kind |-> "Allocated", ty |-> 0, id |-> 0]]]

\* Operands used inside larger values.
OperandsSmall == {O1, O2, O3}

AggregateKinds ==
    {[tag |-> "Array", ty |-> 0], [tag |-> "Tuple"],
     [tag |-> "Adt", def |-> 0, variant |-> 1, args |-> <<TypeArg(0)>>,
      user_ty |-> <<1>>, field |-> <<>>],
     [tag |-> "Closure", def |-> MaxReg, args |-> <<>>],
     [tag |-> "Coroutine", def |-> 0, args |-> <<LifetimeArg("ReBound")>>,
      movability |-> "Static"],
     [tag |-> "RawPtr", ty |-> 0, mutability |-> "Mut"]}

CastKinds ==
    {[tag |-> "IntToInt"], [tag |-> "PointerExposeAddress"],
     [tag |-> "PointerCoercion",
      coercion |-> [tag |-> "ClosureFnPointer", safety |-> "Safe"]]}

BorrowKinds ==
    {[tag |-> "Shared"], [tag |-> "Fake", fake |-> "Deep"],
     [tag |-> "Mut", kind |-> "TwoPhaseBorrow"]}

NullOps ==
    {[tag |-> "SizeOf"], [tag |-> "UbChecks"],
     [tag |-> "OffsetOf", offsets |-> <<<<1, 0>>>>]}

BinaryRvalues ==
    {[tag |-> g, op |-> op, left |-> lr[1], right |-> lr[2]] :
        g \in {"BinaryOp", "CheckedBinaryOp"}, op \in BinOps,
        lr \in {<<O1, O2>>, <<O2, O3>>, <<O3, O1>>, <<O1, O1>>}}

Rvalues ==
    BinaryRvalues
    \cup {[tag |-> "AddressOf", mutability |-> m, place |-> p] :
            m \in {"Not", "Mut"}, p \in PlacesSmall}
    \cup {[tag |-> "Aggregate", kind |-> k, operands |-> os] :
            k \in AggregateKinds, os \in {<<>>, <<O1>>, <<O1, O3>>}}
    \cup {[tag |-> "Cast", kind |-> k, operand |-> o, ty |-> i] :
            k \in CastKinds, o \in OperandsSmall, i \in Idx}
    \cup {[tag |-> g, place |-> p] :
            g \in {"CopyForDeref", "Discriminant", "Len"}, p \in PlacesSmall}
    \cup {[tag |-> "Ref", region |-> r, borrow_kind |-> b, place |-> p] :
            r \in Regions, b \in BorrowKinds, p \in PlacesSmall}
    \cup {[tag |-> "Repeat", operand |-> o, cnst |-> [kind |-> "Value", id |-> i]] :
            o \in OperandsSmall, i \in Idx}
    \cup {[tag |-> "ShallowInitBox", operand |-> o, ty |-> i] :
            o \in OperandsSmall, i \in Idx}
    \cup {[tag |-> "ThreadLocalRef", item |-> d] : d \in Idx}
    \cup {[tag |-> "NullaryOp", null_op |-> n, ty |-> i] : n \in NullOps, i \in Idx}
    \cup {[tag |-> "UnaryOp", op |-> u, operand |-> o] :
            u \in {"Not", "Neg", "PtrMetadata"}, o \in OperandsSmall}
    \cup {[tag |-> "Use", operand |-> o] : o \in OperandsSmall}

\* Rvalues used inside statements.
RvaluesSmall ==
    {[tag |-> "Use", operand |-> O1],
     [tag |-> "BinaryOp", op |-> "Add", left |-> O1, right |-> O2],
     [tag |-> "CheckedBinaryOp", op |-> "Add", left |-> O1, right |-> O3],
     [tag |-> "Ref", region |-> [kind |-> "ReStatic"], borrow_kind |-> [tag |-> "Shared"],
      place |-> [local |-> 1,
                 projection |-> <<[tag |-> "Deref"], [tag |-> "Subtype", ty |-> MaxReg]>>]]}

FakeReadCauses ==
    {[tag |-> "ForMatchGuard"], [tag |-> "ForGuardBinding"], [tag |-> "ForIndex"],
     [tag |-> "ForMatchedPlace", opaque |-> "Some(LocalDefId)"],
     [tag |-> "ForLet", opaque |-> "None"]}

OpaqueCauses == {c \in FakeReadCauses : c.tag \in {"ForMatchedPlace", "ForLet"}}

StatementKinds ==
    {[tag |-> "Assign", place |-> p, rvalue |-> r] : p \in PlacesSmall, r \in RvaluesSmall}
    \cup {[tag |-> "FakeRead", cause |-> c, place |-> p] :
            c \in FakeReadCauses, p \in PlacesSmall}
    \cup {[tag |-> "SetDiscriminant", place |-> p, variant_index |-> 1] : p \in PlacesSmall}
    \cup {[tag |-> g, place |-> p] : g \in {"Deinit", "PlaceMention"}, p \in PlacesSmall}
    \cup {[tag |-> g, local |-> 1] : g \in {"StorageLive", "StorageDead"}}
    \cup {[tag |-> "Retag", retag_kind |-> k, place |-> p] :
            k \in {"FnEntry", "Raw"}, p \in PlacesSmall}
    \cup {[tag |-> "AscribeUserType", place |-> p,
           projections |-> [base |-> 0, projection |-> "opaque"], variance |-> v] :
            p \in PlacesSmall, v \in {"Covariant", "Invariant"}}
    \cup {[tag |-> "Coverage", coverage |-> "opaque"]}
    \cup {[tag |-> "Intrinsic", intrinsic |-> [tag |-> "Assume", operand |-> o]] :
            o \in OperandsSmall}
    \cup {[tag |-> "Intrinsic",
           intrinsic |-> [tag |-> "CopyNonOverlapping",
                          copy |-> [src |-> O1, dst |-> O2, count |-> O3]]]}
    \cup {[tag |-> g] : g \in {"ConstEvalCounter", "Nop"}}

Statements == {[kind |-> k, span |-> sp] : k \in StatementKinds, sp \in Idx}

UnwindActions ==
    {[tag |-> "Continue"], [tag |-> "Unreachable"], [tag |-> "Terminate"],
     [tag |-> "Cleanup", block |-> 1]}

AssertMessages ==
    {[tag |-> "BoundsCheck", len |-> O1, index |-> O3],
     [tag |-> "Overflow", op |-> "Add", left |-> O1, right |-> O2],
     [tag |-> "DivisionByZero", operand |-> O2],
     [tag |-> "ResumedAfterReturn",
      coroutine_kind |-> [tag |-> "Desugared", desugaring |-> "Async",
                          source |-> "Block"]]}

SwitchTargetsSet ==
    {[branches |-> <<[value |-> 0, target |-> 1], [value |-> 5, target |-> 2]>>,
      otherwise |-> 3]}

TerminatorKinds ==
    {[tag |-> g] : g \in {"Resume", "Abort", "Return", "Unreachable"}}
    \cup {[tag |-> "Goto", target |-> 1]}
    \cup {[tag |-> "SwitchInt", discr |-> o, targets |-> ts] :
            o \in OperandsSmall, ts \in SwitchTargetsSet}
    \cup {[tag |-> "Drop", place |-> p, target |-> 2, unwind |-> u] :
            p \in PlacesSmall, u \in UnwindActions}
    \cup {[tag |-> "Call", func |-> f, args |-> as, destination |-> d, target |-> tg,
           unwind |-> u] :
            f \in OperandsSmall, as \in {<<>>, <<O1, O3>>}, d \in PlacesSmall,
            tg \in {<<>>, <<2>>}, u \in {[tag |-> "Continue"], [tag |-> "Terminate"]}}
    \cup {[tag |-> "Assert", cond |-> c, expected |-> e, msg |-> m, target |-> 1,
           unwind |-> [tag |-> "Unreachable"]] :
            c \in {O1, O3}, e \in BOOLEAN, m \in AssertMessages}
    \cup {[tag |-> "InlineAsm", template |-> "nop"]}

Terminators == {[kind |-> k, span |-> sp] : k \in TerminatorKinds, sp \in Idx}

LocalDecls ==
    {[ty |-> i, span |-> sp, mutability |-> m] :
        i \in Idx, sp \in Idx, m \in {"Not", "Mut"}}

\* Blocks and local declarations a stable body is assembled from.
Blocks ==
    {[statements |-> <<[kind |-> [tag |-> "Nop"], span |-> 0],
                       [kind |-> [tag |-> "StorageLive", local |-> 1], span |-> 0]>>,
      terminator |-> [kind |-> [tag |-> "Return"], span |-> 0]],
     [statements |-> <<[kind |-> [tag |-> "Assign", place |-> O1.place,
                                  rvalue |-> [tag |-> "Use", operand |-> O2]],
                        span |-> 0],
                       [kind |-> [tag |-> "Coverage", coverage |-> "opaque"], span |-> 0]>>,
      terminator |-> [kind |-> [tag |-> "Goto", target |-> 1], span |-> 0]],
     [statements |-> <<>>,
      terminator |-> [kind |-> [tag |-> "Drop", place |-> O2.place, target |-> 0,
                                unwind |-> [tag |-> "Cleanup", block |-> 1]],
                      span |-> MaxReg - 1]],
     [statements |-> <<>>,
      terminator |-> [kind |-> [tag |-> "InlineAsm", template |-> "nop"], span |-> 0]]}

BodyLocals ==
    LET first == [ty |-> 0, span |-> 0, mutability |-> "Mut"]
        last == [ty |-> MaxReg - 1, span |-> MaxReg, mutability |-> "Not"]
    IN  {<<>>, <<first>>, <<first, last>>, <<last, first>>}

\* Blocks holding the two statements Blocks has none of: an AscribeUserType
\* and a FakeRead with an opaque cause.  Each stands alone in a body, or
\* after a block that translates.
OpaqueBlockSeqs ==
    LET block(k) == [statements |-> <<[kind |-> k, span |-> 0]>>,
                     terminator |-> [kind |-> [tag |-> "Return"], span |-> 0]]
        ascribe == block([tag |-> "AscribeUserType", place |-> O1.place,
                          projections |-> [base |-> 0, projection |-> "opaque"],
                          variance |-> "Covariant"])
        fakeread == block([tag |-> "FakeRead",
                           cause |-> [tag |-> "ForLet", opaque |-> "None"],
                           place |-> O1.place])
        plain == block([tag |-> "Nop"])
    IN  {<<ascribe>>, <<fakeread>>, <<plain, ascribe>>, <<plain, fakeread>>}

Bodies ==
    {[blocks |-> bs, locals |-> ls, arg_count |-> n] :
        bs \in SeqUpTo(Blocks, MaxLen) \cup OpaqueBlockSeqs,
        ls \in BodyLocals, n \in {0, 1}}

(***************************************************************************)
(* The scalar translators by the name of their enum, and the tags each     *)
(* stable enum has.                                                        *)
(***************************************************************************)
ScalarFamilies ==
    {"IntTy", "UintTy", "FloatTy", "Mutability", "Movability", "Safety", "Abi",
     "DynKind", "ClosureKind", "Variance", "RetagKind", "UnOp", "CastKind",
     "PointerCoercion", "BorrowKind", "FakeBorrowKind", "MutBorrowKind",
     "CoroutineDesugaring", "CoroutineSource"}

PointerCoercionValues ==
    {[tag |-> g] : g \in {"ReifyFnPointer", "UnsafeFnPointer", "MutToConstPointer",
                          "ArrayToPointer", "Unsize"}}
    \cup {[tag |-> "ClosureFnPointer", safety |-> s] : s \in {"Unsafe", "Safe"}}

\* A variant without payload, as the record of its tag.
Plain(tags) == {[tag |-> g] : g \in tags}

ScalarValues(f) ==
    CASE f = "IntTy" -> Plain({"Isize", "I8", "I16", "I32", "I64", "I128"})
      [] f = "UintTy" -> Plain({"Usize", "U8", "U16", "U32", "U64", "U128"})
      [] f = "FloatTy" -> Plain({"F16", "F32", "F64", "F128"})
      [] f = "Mutability" -> Plain({"Not", "Mut"})
      [] f = "Movability" -> Plain({"Static", "Movable"})
      [] f = "Safety" -> Plain({"Unsafe", "Safe"})
      [] f = "Abi" ->
            {[tag |-> g] : g \in AbiPlainTags}
            \cup {[tag |-> g, unwind |-> u] : g \in AbiUnwindTags, u \in BOOLEAN}
      [] f = "DynKind" -> Plain({"Dyn", "DynStar"})
      [] f = "ClosureKind" -> Plain({"Fn", "FnMut", "FnOnce"})
      [] f = "Variance" -> Plain({"Covariant", "Invariant", "Contravariant", "Bivariant"})
      [] f = "RetagKind" -> Plain({"FnEntry", "TwoPhase", "Raw", "Default"})
      [] f = "UnOp" -> Plain({"Not", "Neg", "PtrMetadata"})
      [] f = "CastKind" ->
            {[tag |-> g] : g \in {"PointerExposeAddress", "PointerWithExposedProvenance",
                                  "DynStar", "IntToInt", "FloatToInt", "FloatToFloat",
                                  "IntToFloat", "PtrToPtr", "FnPtrToPtr", "Transmute"}}
            \cup {[tag |-> "PointerCoercion", coercion |-> c] : c \in PointerCoercionValues}
      [] f = "PointerCoercion" -> PointerCoercionValues
      [] f = "BorrowKind" ->
            {[tag |-> "Shared"]}
            \cup {[tag |-> "Fake", fake |-> k] : k \in {"Deep", "Shallow"}}
            \cup {[tag |-> "Mut", kind |-> k] :
                    k \in {"Default", "TwoPhaseBorrow", "ClosureCapture"}}
      [] f = "FakeBorrowKind" -> Plain({"Deep", "Shallow"})
      [] f = "MutBorrowKind" -> Plain({"Default", "TwoPhaseBorrow", "ClosureCapture"})
      [] f = "CoroutineDesugaring" -> Plain({"Async", "Gen", "AsyncGen"})
      [] f = "CoroutineSource" -> Plain({"Block", "Closure", "Fn"})

\* x.internal(tables, tcx) for a scalar x of enum f: the tables are not read.
\* A variant without payload is held as the record of its tag.
Scalar_internal(f, x) ==
    CASE f = "IntTy" -> [tag |-> IntTy_internal(x.tag)]
      [] f = "UintTy" -> [tag |-> UintTy_internal(x.tag)]
      [] f = "FloatTy" -> [tag |-> FloatTy_internal(x.tag)]
      [] f = "Mutability" -> [tag |-> Mutability_internal(x.tag)]
      [] f = "Movability" -> [tag |-> Movability_internal(x.tag)]
      [] f = "Safety" -> [tag |-> Safety_internal(x.tag)]
      [] f = "Abi" -> Abi_internal(x)
      [] f = "DynKind" -> [tag |-> DynKind_internal(x.tag)]
      [] f = "ClosureKind" -> [tag |-> ClosureKind_internal(x.tag)]
      [] f = "Variance" -> [tag |-> Variance_internal(x.tag)]
      [] f = "RetagKind" -> [tag |-> RetagKind_internal(x.tag)]
      [] f = "UnOp" -> [tag |-> UnOp_internal(x.tag)]
      [] f = "CastKind" -> CastKind_internal(x)
      [] f = "PointerCoercion" -> PointerCoercion_internal(x)
      [] f = "BorrowKind" -> BorrowKind_internal(x)
      [] f = "FakeBorrowKind" -> [tag |-> FakeBorrowKind_internal(x.tag)]
      [] f = "MutBorrowKind" -> [tag |-> MutBorrowKind_internal(x.tag)]
      [] f = "CoroutineDesugaring" -> [tag |-> CoroutineDesugaring_internal(x.tag)]
      [] f = "CoroutineSource" -> [tag |-> CoroutineSource_internal(x.tag)]

Scalars ==
    UNION {{[family |-> f, value |-> v] : v \in ScalarValues(f)} : f \in ScalarFamilies}

(***************************************************************************)
(* The export of an internal body (the stable() direction).  It registers  *)
(* every handle of the body in the tables and names it by its index; the   *)
(* stable schema has no field for what the translators above fill with a   *)
(* constant.                                                               *)
(***************************************************************************)
\* The index a handle is registered under.
IndexOf(map, h) == CHOOSE i \in 0..(Len(map) - 1) : map[i + 1] = h

Region_stable(r) == [kind |-> r.region]

ProjectionElem_stable(t, e) ==
    CASE e.tag = "PlaceElem::Deref" -> [tag |-> "Deref"]
      [] e.tag = "PlaceElem::Field" ->
            [tag |-> "Field", field |-> e.field, ty |-> IndexOf(t.types, e.ty)]
      [] e.tag = "PlaceElem::Downcast" -> [tag |-> "Downcast", variant |-> e.variant]

Place_stable(t, p) ==
    [local |-> p.local,
     projection |-> [i \in 1..Len(p.projection) |->
                        ProjectionElem_stable(t, p.projection[i])]]

Operand_stable(t, o) ==
    [tag |-> IF o.tag = "Operand::Copy" THEN "Copy" ELSE "Move",
     place |-> Place_stable(t, o.place)]

GenericArg_stable(t, a) ==
    CASE a.tag = "GenericArg::Lifetime" ->
            [tag |-> "Lifetime", region |-> Region_stable(a.region)]
      [] a.tag = "GenericArg::Type" -> [tag |-> "Type", ty |-> IndexOf(t.types, a.ty)]

Rvalue_stable(t, rv) ==
    CASE rv.tag = "Rvalue::Use" ->
            [tag |-> "Use", operand |-> Operand_stable(t, rv.operand)]
      [] rv.tag = "Rvalue::BinaryOp" ->
            [tag |-> "BinaryOp", op |-> rv.op, left |-> Operand_stable(t, rv.left),
             right |-> Operand_stable(t, rv.right)]
      [] rv.tag = "Rvalue::Ref" ->
            [tag |-> "Ref", region |-> Region_stable(rv.region),
             borrow_kind |-> rv.borrow_kind, place |-> Place_stable(t, rv.place)]
      [] rv.tag = "Rvalue::Aggregate" ->
            [tag |-> "Aggregate",
             kind |-> [tag |-> "Adt", def |-> IndexOf(t.def_ids, rv.kind.def),
                       variant |-> rv.kind.variant,
                       args |-> [i \in 1..Len(rv.kind.args) |->
                                    GenericArg_stable(t, rv.kind.args[i])],
                       user_ty |-> rv.kind.user_ty, field |-> rv.kind.field],
             operands |-> [i \in 1..Len(rv.operands) |->
                              Operand_stable(t, rv.operands[i])]]

Statement_stable(t, s) ==
    [kind |-> IF s.kind.tag = "StatementKind::Nop"
              THEN [tag |-> "Nop"]
              ELSE [tag |-> "Assign", place |-> Place_stable(t, s.kind.place),
                    rvalue |-> Rvalue_stable(t, s.kind.rvalue)],
     span |-> IndexOf(t.spans, s.source_info.span)]

UnwindAction_stable(u) ==
    CASE u.tag = "Terminate" -> [tag |-> "Terminate"]
      [] OTHER -> u

Terminator_stable(t, term) ==
    LET k == term.kind
        kind ==
            CASE k.tag \in {"TerminatorKind::Goto"} -> [tag |-> "Goto", target |-> k.target]
              [] k.tag = "TerminatorKind::Return" -> [tag |-> "Return"]
              [] k.tag = "TerminatorKind::UnwindTerminate" -> [tag |-> "Abort"]
              [] k.tag = "TerminatorKind::Drop" ->
                    [tag |-> "Drop", place |-> Place_stable(t, k.place),
                     target |-> k.target, unwind |-> UnwindAction_stable(k.unwind)]
              [] k.tag = "TerminatorKind::Call" ->
                    [tag |-> "Call", func |-> Operand_stable(t, k.func),
                     args |-> [i \in 1..Len(k.args) |-> Operand_stable(t, k.args[i].node)],
                     destination |-> Place_stable(t, k.destination),
                     target |-> k.target, unwind |-> UnwindAction_stable(k.unwind)]
    IN  [kind |-> kind, span |-> IndexOf(t.spans, term.source_info.span)]

LocalDecl_stable(t, d) ==
    [ty |-> IndexOf(t.types, d.ty), span |-> IndexOf(t.spans, d.source_info.span),
     mutability |-> d.mutability]

Body_stable(t, v) ==
    [blocks |-> [i \in 1..Len(v.basic_blocks) |->
                    [statements |-> [j \in 1..Len(v.basic_blocks[i].statements) |->
                                        Statement_stable(t, v.basic_blocks[i].statements[j])],
                     terminator |-> Terminator_stable(t, v.basic_blocks[i].terminator[1])]],
     locals |-> [i \in 1..Len(v.local_decls) |-> LocalDecl_stable(t, v.local_decls[i])],
     arg_count |-> v.arg_count]

(***************************************************************************)
(* Internal bodies that a session with the given tables can have exported: *)
(* every handle in them is an entry of the tables in tcx.                  *)
(***************************************************************************)
\* The fields of an internal body that the stable schema has no place for.
LossyFields ==
    {"is_cleanup", "replace", "terminate_reason", "call_source", "fn_span",
     "downcast_name", "local_info", "local_user_ty", "scope", "source",
     "source_scopes", "body_span"}

\* What an internal body holds in its lossy fields: the values the
\* translators fill in, but for one field, or for every field.
Deviations == {{}} \cup {{f} : f \in LossyFields} \cup {LossyFields}

\* Indices whose type, span and def id are all registered in tcx.
ExportedIdx(t) ==
    {i \in 0..(Len(t.types) - 1) :
        /\ t.types[i + 1].ctx = "tcx"
        /\ t.spans[i + 1].ctx = "tcx"
        /\ t.def_ids[i + 1].ctx = "tcx"}

InternalBody(t, i, dev, op, region) ==
    LET ty == t.types[i + 1]
        sp == t.spans[i + 1]
        def == t.def_ids[i + 1]
        info == [span |-> sp,
                 scope |-> IF "scope" \in dev THEN "scope[1]"
                           ELSE "OUTERMOST_SOURCE_SCOPE"]
        p0 == [local |-> 0, projection |-> <<>>]
        pD == [local |-> 1,
               projection |->
                   <<[tag |-> "PlaceElem::Downcast",
                      name |-> IF "downcast_name" \in dev THEN <<"Some">> ELSE <<>>,
                      variant |-> 1],
                     [tag |-> "PlaceElem::Field", field |-> 2, ty |-> ty]>>]
        copy0 == [tag |-> "Operand::Copy", place |-> p0]
        moveD == [tag |-> "Operand::Move", place |-> pD]
        reason == IF "terminate_reason" \in dev THEN "InCleanup" ELSE "Abi"
        assign(pl, rv) ==
            [source_info |-> info,
             kind |-> [tag |-> "StatementKind::Assign", place |-> pl, rvalue |-> rv]]
        b1 == [statements |->
                  <<assign(p0, [tag |-> "Rvalue::BinaryOp", op |-> op,
                                left |-> copy0, right |-> moveD]),
                    assign(pD, [tag |-> "Rvalue::Ref", region |-> region,
                                borrow_kind |-> [tag |-> "Shared"], place |-> p0]),
                    assign(p0, [tag |-> "Rvalue::Aggregate",
                                kind |-> [tag |-> "AggregateKind::Adt", def |-> def,
                                          variant |-> 1,
                                          args |-> <<[tag |-> "GenericArg::Lifetime",
                                                      region |-> region],
                                                     [tag |-> "GenericArg::Type",
                                                      ty |-> ty]>>,
                                          user_ty |-> <<>>, field |-> <<>>],
                                operands |-> <<moveD>>])>>,
               terminator |->
                  <<[source_info |-> info,
                     kind |-> [tag |-> "TerminatorKind::Call", func |-> copy0,
                               args |-> <<[node |-> moveD, span |-> DUMMY_SP]>>,
                               destination |-> p0, target |-> <<1>>,
                               unwind |-> [tag |-> "Terminate", reason |-> reason],
                               call_source |-> IF "call_source" \in dev THEN "Normal"
                                               ELSE "Misc",
                               fn_span |-> IF "fn_span" \in dev THEN sp ELSE DUMMY_SP]]>>,
               is_cleanup |-> FALSE]
        b2 == [statements |-> <<[source_info |-> info,
                                 kind |-> [tag |-> "StatementKind::Nop"]]>>,
               terminator |->
                  <<[source_info |-> info,
                     kind |-> [tag |-> "TerminatorKind::Drop", place |-> pD, target |-> 2,
                               unwind |-> [tag |-> "Cleanup", block |-> 2],
                               replace |-> "replace" \in dev]]>>,
               is_cleanup |-> FALSE]
        b3 == [statements |-> <<>>,
               terminator |->
                  <<[source_info |-> info,
                     kind |-> [tag |-> "TerminatorKind::UnwindTerminate",
                               reason |-> reason]]>>,
               is_cleanup |-> "is_cleanup" \in dev]
        local(m) ==
            [mutability |-> m,
             local_info |-> IF "local_info" \in dev THEN "User" ELSE "Boring",
             ty |-> ty,
             user_ty |-> IF "local_user_ty" \in dev THEN <<1>> ELSE <<>>,
             source_info |-> info]
    IN  [source |-> IF "source" \in dev THEN "DefId(item)" ELSE "CRATE_DEF_ID",
         basic_blocks |-> <<b1, b2, b3>>,
         source_scopes |-> IF "source_scopes" \in dev THEN <<"scope[0]", "scope[1]">>
                           ELSE <<>>,
         local_decls |-> <<local("Mut"), local("Not")>>,
         user_type_annotations |-> <<>>,
         arg_count |-> 1,
         var_debug_info |-> <<>>,
         span |-> IF "body_span" \in dev THEN sp ELSE DUMMY_SP,
         coroutine |-> <<>>,
         tainted_by_errors |-> <<>>]

InternalBodies(t) ==
    {InternalBody(t, i, dev, op, [region |-> r]) :
        i \in ExportedIdx(t), dev \in Deviations, op \in {"Add", "AddUnchecked"},
        r \in {"ReErased", "ReStatic"}}

(***************************************************************************)
(* The calls.  A session holds its tables; every call translates one       *)
(* stable value against them and returns or panics.  `call` names the      *)
(* translator entered last, `arg` holds its argument under that name and   *)
(* `out` its outcome.                                                      *)
(***************************************************************************)
Translate(t, c, x) ==
    CASE c = "Region" -> Region_internal(t, x)
      [] c = "GenericArgs" -> GenericArgs_internal(t, x)
      [] c = "RigidTy" -> RigidTy_internal(t, x)
      [] c = "DefId" -> DefId_internal(t, x)
      [] c = "Ty" -> Ty_internal(t, x)
      [] c = "TyConst" -> TyConst_internal(t, x)
      [] c = "MirConst" -> MirConst_internal(t, x)
      [] c = "Instance" -> Instance_internal(t, x)
      [] c = "AllocId" -> AllocId_internal(t, x)
      [] c = "Layout" -> Layout_internal(t, x)
      [] c = "Span" -> Span_internal(t, x)
      [] c = "MonoItem" -> MonoItem_internal(t, x)
      [] c = "BinOp" -> Ok(BinOp_internal(x))
      [] c = "Place" -> Place_internal(t, x)
      [] c = "Operand" -> Operand_internal(t, x)
      [] c = "Rvalue" -> Rvalue_internal(t, x)
      [] c = "Statement" -> Statement_internal(t, x)
      [] c = "Terminator" -> Terminator_internal(t, x)
      [] c = "LocalDecl" -> LocalDecl_internal(t, x)
      [] c = "Body" -> Body_internal(t, x)
      [] c = "StatementKind" -> StatementKind_internal(t, x)
      [] c = "TerminatorKind" -> TerminatorKind_internal(t, x)
      [] c = "UnwindAction" -> Ok(UnwindAction_internal(x))
      [] c = "Scalar" -> Ok(Scalar_internal(x.family, x.value))
      [] c = "RoundTrip" -> Body_internal(t, x.stable)

\* No call is in progress and no outcome is held.
NoCall == "none"

\* The host threads that translate in one window, and a thread's call: the
\* Vec<Ty> it translates, the elements collected so far and the outcome.
Workers == {"first", "second"}

Pending == [ok |-> FALSE, kind |-> "none", msg |-> "pending"]

StartWorker(tys) == [job |-> tys, acc |-> <<>>, res |-> Pending]

NoWorkers == [w \in Workers |-> StartWorker(<<>>)]

\* A call of Body::internal taken one node at a time: the blocks and the
\* statements of the current block collected so far, the local declarations
\* collected so far, the number of nodes visited and the outcome.
StartWalk(body) ==
    [body |-> body, blocks |-> <<>>, statements |-> <<>>, locals |-> <<>>,
     visits |-> 0, res |-> Pending]

NoWalk == StartWalk([blocks |-> <<>>, locals |-> <<>>, arg_count |-> 0])

NoArg == (NoCall :> 0)

NoOutcome == [ok |-> FALSE, kind |-> "none", msg |-> "no call yet"]

\* A call that registers a def id that it did not find.
Internal_registering(c, x, o) ==
    /\ call' = c
    /\ arg' = (c :> x)
    /\ out' = o
    /\ tables' = IF c = "DefId" /\ ~o.ok
                 THEN [tables EXCEPT !.def_ids =
                          Append(@, Handle("def_ids", Len(@), "tcx"))]
                 ELSE tables
    /\ UNCHANGED <<workers, walk>>

\* x.internal(tables, tcx) with outcome o: the tables are borrowed and only
\* indexed.  No host thread runs a translation of its own meanwhile.
Internal(c, x, o) ==
    /\ call' = c
    /\ arg' = (c :> x)
    /\ out' = o
    /\ tables' = tables
    /\ UNCHANGED <<workers, walk>>

TranslateRegion ==
    /\ call = NoCall
    /\ \E x \in Regions :
           Internal("Region", x, Region_internal(tables, x))

TranslateGenericArgs ==
    /\ call = NoCall
    /\ \E x \in SeqUpTo(GenericArgKinds, MaxLen) :
           Internal("GenericArgs", x, GenericArgs_internal(tables, x))

TranslateRigidTy ==
    /\ call = NoCall
    /\ \E x \in RigidTys :
           Internal("RigidTy", x, RigidTy_internal(tables, x))

TranslateDefId ==
    /\ call = NoCall
    /\ \E x \in Idx :
           Internal("DefId", x, DefId_internal(tables, x))

TranslateTy ==
    /\ call = NoCall
    /\ \E x \in Idx :
           Internal("Ty", x, Ty_internal(tables, x))

TranslateTyConst ==
    /\ call = NoCall
    /\ \E x \in TyConsts :
           Internal("TyConst", x, TyConst_internal(tables, x))

TranslateMirConst ==
    /\ call = NoCall
    /\ \E x \in MirConsts :
           Internal("MirConst", x, MirConst_internal(tables, x))

TranslateInstance ==
    /\ call = NoCall
    /\ \E x \in Instances :
           Internal("Instance", x, Instance_internal(tables, x))

TranslateAllocId ==
    /\ call = NoCall
    /\ \E x \in Idx :
           Internal("AllocId", x, AllocId_internal(tables, x))

TranslateLayout ==
    /\ call = NoCall
    /\ \E x \in Idx :
           Internal("Layout", x, Layout_internal(tables, x))

TranslateSpan ==
    /\ call = NoCall
    /\ \E x \in Idx :
           Internal("Span", x, Span_internal(tables, x))

TranslateMonoItem ==
    /\ call = NoCall
    /\ \E x \in MonoItems :
           Internal("MonoItem", x, MonoItem_internal(tables, x))

TranslateBinOp ==
    /\ call = NoCall
    /\ \E x \in BinOps :
           Internal("BinOp", x, Ok(BinOp_internal(x)))

TranslatePlace ==
    /\ call = NoCall
    /\ \E x \in Places :
           Internal("Place", x, Place_internal(tables, x))

TranslateOperand ==
    /\ call = NoCall
    /\ \E x \in Operands :
           Internal("Operand", x, Operand_internal(tables, x))

TranslateRvalue ==
    /\ call = NoCall
    /\ \E x \in Rvalues :
           Internal("Rvalue", x, Rvalue_internal(tables, x))

TranslateStatement ==
    /\ call = NoCall
    /\ \E x \in Statements :
           Internal("Statement", x, Statement_internal(tables, x))

TranslateTerminator ==
    /\ call = NoCall
    /\ \E x \in Terminators :
           Internal("Terminator", x, Terminator_internal(tables, x))

TranslateLocalDecl ==
    /\ call = NoCall
    /\ \E x \in LocalDecls :
           Internal("LocalDecl", x, LocalDecl_internal(tables, x))

TranslateBody ==
    /\ call = NoCall
    /\ \E x \in Bodies :
           Internal("Body", x, Body_internal(tables, x))

TranslateStatementKind ==
    /\ call = NoCall
    /\ \E x \in StatementKinds :
           Internal("StatementKind", x, StatementKind_internal(tables, x))

TranslateTerminatorKind ==
    /\ call = NoCall
    /\ \E x \in TerminatorKinds :
           Internal("TerminatorKind", x, TerminatorKind_internal(tables, x))

TranslateUnwindAction ==
    /\ call = NoCall
    /\ \E x \in UnwindActions :
           Internal("UnwindAction", x, Ok(UnwindAction_internal(x)))

TranslateScalar ==
    /\ call = NoCall
    /\ \E x \in Scalars :
           Internal("Scalar", x, Ok(Scalar_internal(x.family, x.value)))

\* An internal body of the session is exported and the export is translated
\* back in the same session.
TranslateExported ==
    /\ call = NoCall
    /\ \E v \in InternalBodies(tables) :
           LET exported == Body_stable(tables, v)
           IN  Internal("RoundTrip", [internal |-> v, stable |-> exported],
                        Body_internal(tables, exported))

\* The same stable value is translated a second time in the session.
Retranslate ==
    /\ call # NoCall
    /\ Internal(call, arg[call], Translate(tables, call, arg[call]))

\* The caller takes the outcome; the session goes on with the same tables.
Return ==
    /\ call # NoCall
    /\ call' = NoCall
    /\ arg' = NoArg
    /\ out' = NoOutcome
    /\ tables' = tables
    /\ UNCHANGED <<workers, walk>>

Init ==
    /\ tables \in TableSpace
    /\ call = NoCall
    /\ arg = NoArg
    /\ out = NoOutcome
    /\ workers = NoWorkers
    /\ walk = NoWalk

Next ==
    \/ TranslateRegion
    \/ TranslateGenericArgs
    \/ TranslateRigidTy
    \/ TranslateDefId
    \/ TranslateTy
    \/ TranslateTyConst
    \/ TranslateMirConst
    \/ TranslateInstance
    \/ TranslateAllocId
    \/ TranslateLayout
    \/ TranslateSpan
    \/ TranslateMonoItem
    \/ TranslateBinOp
    \/ TranslatePlace
    \/ TranslateOperand
    \/ TranslateRvalue
    \/ TranslateStatement
    \/ TranslateTerminator
    \/ TranslateLocalDecl
    \/ TranslateBody
    \/ TranslateStatementKind
    \/ TranslateTerminatorKind
    \/ TranslateUnwindAction
    \/ TranslateScalar
    \/ TranslateExported
    \/ Retranslate
    \/ Return

Spec == Init /\ [][Next]_vars

(***************************************************************************)
(* A window in which a host runs independent translation calls in          *)
(* parallel against the tables of the session.  Each thread translates a   *)
(* Vec<Ty>; the translation of one element (the lookup in tables.types and *)
(* its lift) is one step, and the steps of the threads interleave in any   *)
(* order.  No thread inserts into the tables.                              *)
(***************************************************************************)
TyVecs == SeqUpTo({0, MaxReg - 1}, MaxLen)

\* A translator that registers the type it did not find.
WorkerStep_inserting(w) ==
    LET s == workers[w]
        n == Len(s.acc)
        r == Ty_internal(tables, s.job[n + 1])
    IN  /\ s.res = Pending
        /\ IF n = Len(s.job)
           THEN workers' = [workers EXCEPT ![w].res = Ok(s.acc)] /\ tables' = tables
           ELSE IF r.ok
           THEN workers' = [workers EXCEPT ![w].acc = Append(s.acc, r.val)]
                /\ tables' = tables
           ELSE workers' = [workers EXCEPT ![w].res = r]
                /\ tables' = [tables EXCEPT !.types =
                                  Append(@, Handle("types", Len(@), "tcx"))]
        /\ UNCHANGED <<call, arg, out, walk>>

\* impl<T> RustcInternal for Vec<T>, at T = Ty: one turn of
\* self.iter().map(|e| e.internal(tables, tcx)).collect() in thread w.  A
\* panic of the element ends the call; after the last element the collected
\* vector is returned.
WorkerStep(w) ==
    LET s == workers[w]
        n == Len(s.acc)
        r == Ty_internal(tables, s.job[n + 1])
    IN  /\ s.res = Pending
        /\ IF n = Len(s.job)
           THEN workers' = [workers EXCEPT ![w].res = Ok(s.acc)]
           ELSE IF r.ok
           THEN workers' = [workers EXCEPT ![w].acc = Append(s.acc, r.val)]
           ELSE workers' = [workers EXCEPT ![w].res = r]
        /\ UNCHANGED <<tables, call, arg, out, walk>>

InitWindow ==
    /\ tables \in TableSpace
    /\ call = NoCall
    /\ arg = NoArg
    /\ out = NoOutcome
    /\ workers \in [Workers -> {StartWorker(tys) : tys \in TyVecs}]
    /\ walk = NoWalk

NextWindow == \E w \in Workers : WorkerStep(w)

SpecWindow == InitWindow /\ [][NextWindow]_vars

(***************************************************************************)
(* Body::internal one node at a time.  The iterator over self.blocks takes *)
(* the statements of a block in order and then its terminator; when the    *)
(* blocks are collected the iterator over self.locals() takes the local    *)
(* declarations; then Body::new returns.  A panic of a node ends the call. *)
(***************************************************************************)
WalkBodies ==
    {b \in Bodies : b.arg_count = 1 /\ Len(b.locals) # 1
                    /\ (b.locals # <<>> => b.locals[1].ty = 0)}

\* The node the walk translates next, and what the walk becomes when the
\* node has translated to v.
WalkAtStatement(w) ==
    /\ Len(w.blocks) < Len(w.body.blocks)
    /\ Len(w.statements) < Len(w.body.blocks[Len(w.blocks) + 1].statements)

WalkAtTerminator(w) ==
    /\ Len(w.blocks) < Len(w.body.blocks)
    /\ Len(w.statements) = Len(w.body.blocks[Len(w.blocks) + 1].statements)

WalkAtLocal(w) ==
    /\ Len(w.blocks) = Len(w.body.blocks)
    /\ Len(w.locals) < Len(w.body.locals)

WalkNode(t, w) ==
    CASE WalkAtStatement(w) ->
            Statement_internal(t, w.body.blocks[Len(w.blocks) + 1]
                                      .statements[Len(w.statements) + 1])
      [] WalkAtTerminator(w) ->
            Terminator_internal(t, w.body.blocks[Len(w.blocks) + 1].terminator)
      [] WalkAtLocal(w) ->
            LocalDecl_internal(t, w.body.locals[Len(w.locals) + 1])

WalkCollect(w, v) ==
    CASE WalkAtStatement(w) -> [w EXCEPT !.statements = Append(@, v)]
      [] WalkAtTerminator(w) ->
            [w EXCEPT !.blocks = Append(@, [statements |-> w.statements,
                                            terminator |-> <<v>>,
                                            is_cleanup |-> FALSE]),
                      !.statements = <<>>]
      [] WalkAtLocal(w) -> [w EXCEPT !.locals = Append(@, v)]

\* Body::new at the end of Body::internal.
WalkReturn(w) ==
    Ok([source |-> "CRATE_DEF_ID",
        basic_blocks |-> w.blocks,
        source_scopes |-> <<>>,
        local_decls |-> w.locals,
        user_type_annotations |-> <<>>,
        arg_count |-> w.body.arg_count,
        var_debug_info |-> <<>>,
        span |-> DUMMY_SP,
        coroutine |-> <<>>,
        tainted_by_errors |-> <<>>])

\* A walk that goes on to the next node when a node has failed.
WalkStep_skipping ==
    /\ walk.res = Pending
    /\ IF WalkAtStatement(walk) \/ WalkAtTerminator(walk) \/ WalkAtLocal(walk)
       THEN LET r == WalkNode(tables, walk)
                v == IF r.ok THEN r.val ELSE [kind |-> [tag |-> "StatementKind::Nop"]]
            IN  walk' = [WalkCollect(walk, v) EXCEPT !.visits = @ + 1]
       ELSE walk' = [walk EXCEPT !.res = WalkReturn(walk)]
    /\ UNCHANGED <<tables, call, arg, out, workers>>

\* One turn of the iterators of Body::internal, or its return.
WalkStep ==
    /\ walk.res = Pending
    /\ IF WalkAtStatement(walk) \/ WalkAtTerminator(walk) \/ WalkAtLocal(walk)
       THEN LET r == WalkNode(tables, walk)
            IN  IF r.ok
                THEN walk' = [WalkCollect(walk, r.val) EXCEPT !.visits = @ + 1]
                ELSE walk' = [walk EXCEPT !.visits = @ + 1, !.res = r]
       ELSE walk' = [walk EXCEPT !.res = WalkReturn(walk)]
    /\ UNCHANGED <<tables, call, arg, out, workers>>

InitWalk ==
    /\ tables \in TableSpace
    /\ call = NoCall
    /\ arg = NoArg
    /\ out = NoOutcome
    /\ workers = NoWorkers
    /\ walk \in {StartWalk(b) : b \in WalkBodies}

NextWalk == WalkStep

\* The call runs on a thread of its own and is never suspended.
SpecWalk == InitWalk /\ [][NextWalk]_vars /\ WF_vars(WalkStep)

(***************************************************************************)
(* Properties.                                                             *)
(***************************************************************************)
\* The stable value of the call in progress.
Arg == arg[call]

Registered(c, i) == i < Len(tables[c])

\* C1: translating a region yields the erased region for every region kind
\* and against every table, the empty one included; the region of every
\* translated Ref type, Dynamic type, Ref rvalue and Lifetime generic
\* argument is the erased region.
C1_RegionErased ==
    /\ call = "Region" =>
          /\ out = Ok(re_erased)
          /\ \A t2 \in TableSpace : Region_internal(t2, Arg) = out
    /\ (call = "RigidTy" /\ out.ok /\ out.val.tag \in {"TyKind::Ref", "TyKind::Dynamic"})
          => out.val.region = re_erased
    /\ (call = "Rvalue" /\ out.ok /\ out.val.tag = "Rvalue::Ref")
          => out.val.region = re_erased
    /\ (call = "GenericArgs" /\ out.ok) =>
          \A i \in 1..Len(Arg) :
              Arg[i].tag = "Lifetime" =>
                  out.val[i] = [tag |-> "GenericArg::Lifetime", region |-> re_erased]

C1_Witness ==
    /\ call = "Region"
    /\ Arg.kind = "ReBound"
    /\ tables = MkTables(0, {})
    /\ out.ok

\* The unchecked form of an operator that has one.
UncheckedOf(op) ==
    CASE op = "Add" -> "AddUnchecked" [] op = "Sub" -> "SubUnchecked"
      [] op = "Mul" -> "MulUnchecked" [] op = "Shl" -> "ShlUnchecked"
      [] op = "Shr" -> "ShrUnchecked"

CheckedForms == {"Add", "Sub", "Mul", "Shl", "Shr"}

\* C2 as claimed: the checked and the unchecked form of a binary operator
\* translate to the same internal operator tag.
C2_Original ==
    (call = "BinOp" /\ Arg \in CheckedForms)
        => out.val = BinOp_internal(UncheckedOf(Arg))

\* C2, amended: BinOp translation always succeeds and keeps the tag, so the
\* checked and the unchecked form of an operator translate to two different
\* internal tags, Add to Add and AddUnchecked to AddUnchecked.
C2_TagKept ==
    call = "BinOp" =>
        /\ out.ok
        /\ out.val = Arg
        /\ Arg \in CheckedForms =>
              /\ BinOp_internal(UncheckedOf(Arg)) = UncheckedOf(Arg)
              /\ BinOp_internal(UncheckedOf(Arg)) # out.val

C2_Witness == call = "BinOp" /\ Arg = "Shl" /\ out = Ok("Shl")

\* The other stable form of a binary rvalue.
TwinOf(rv) ==
    [rv EXCEPT !.tag = IF @ = "BinaryOp" THEN "CheckedBinaryOp" ELSE "BinaryOp"]

\* C3: BinaryOp(op, l, r) and CheckedBinaryOp(op, l, r) translate to the
\* same outcome: an internal BinaryOp with the translated op and the
\* translated operands, left then right.
C3_CheckedMerged ==
    (call = "Rvalue" /\ Arg.tag \in {"BinaryOp", "CheckedBinaryOp"}) =>
        /\ out = Rvalue_internal(tables, TwinOf(Arg))
        /\ out.ok =>
              /\ out.val.tag = "Rvalue::BinaryOp"
              /\ DOMAIN out.val = {"tag", "op", "left", "right"}
              /\ out.val.op = BinOp_internal(Arg.op)
              /\ out.val.left = Operand_internal(tables, Arg.left).val
              /\ out.val.right = Operand_internal(tables, Arg.right).val

C3_Witness ==
    /\ call = "Rvalue"
    /\ Arg.tag = "CheckedBinaryOp"
    /\ Arg.left # Arg.right
    /\ out.ok

IsFakeRead == call = "Statement" /\ Arg.kind.tag = "FakeRead"

\* C4 as claimed: a FakeRead statement with an opaque cause fails as an
\* unsupported construct.
C4_Original ==
    (IsFakeRead /\ Arg.kind.cause \in OpaqueCauses)
        => (~out.ok /\ out.kind = UnsupportedConstruct)

\* C4, amended: a FakeRead statement with an opaque cause never translates;
\* it fails as an unsupported construct when its span is registered and as
\* a missing index when it is not.  With another cause, a registered span
\* and a place that translates, it yields the cause of the same name.
C4_FakeRead ==
    IsFakeRead =>
        /\ Arg.kind.cause \in OpaqueCauses =>
              /\ ~out.ok
              /\ Registered("spans", Arg.span) =>
                    out = Fail(UnsupportedConstruct, OpaqueFieldMsg)
              /\ ~Registered("spans", Arg.span) => out.kind = MissingIdentity
        /\ (/\ Arg.kind.cause \notin OpaqueCauses
            /\ Registered("spans", Arg.span)
            /\ Place_internal(tables, Arg.kind.place).ok) =>
              /\ out.ok
              /\ out.val.kind.tag = "StatementKind::FakeRead"
              /\ out.val.kind.cause = Arg.kind.cause.tag

C4_Witness ==
    /\ IsFakeRead
    /\ Arg.kind.cause.tag = "ForLet"
    /\ Registered("spans", Arg.span)
    /\ out = Fail(UnsupportedConstruct, OpaqueFieldMsg)

\* The panic payloads of each kind of failure.
PayloadsOf(kind) ==
    CASE kind = MissingIdentity -> {MissingIndexMsg}
      [] kind = LiftFailure -> {UnwrapNoneMsg}
      [] kind = UnsupportedConstruct -> {UnimplementedMsg, OpaqueFieldMsg, TodoMsg}

ExcludedStatement(s) ==
    \/ s.kind.tag \in {"Coverage", "AscribeUserType"}
    \/ s.kind.tag = "FakeRead" /\ s.kind.cause \in OpaqueCauses

ExcludedTerminator(term) == term.kind.tag = "InlineAsm"

\* The stable value of the call holds a variant that is excluded from
\* reconstruction.
HoldsExcluded ==
    CASE call = "MonoItem" -> Arg.tag = "GlobalAsm"
      [] call = "Statement" -> ExcludedStatement(Arg)
      [] call = "Terminator" -> ExcludedTerminator(Arg)
      [] call = "StatementKind" -> ExcludedStatement([kind |-> Arg])
      [] call = "TerminatorKind" -> ExcludedTerminator([kind |-> Arg])
      [] call = "Body" ->
            \E i \in 1..Len(Arg.blocks) :
                \/ ExcludedTerminator(Arg.blocks[i].terminator)
                \/ \E j \in 1..Len(Arg.blocks[i].statements) :
                       ExcludedStatement(Arg.blocks[i].statements[j])
      [] OTHER -> FALSE

HoldsForeign ==
    \E c \in Categories : \E i \in 1..Len(tables[c]) :
        IF c = "mir_consts"
        THEN \E f \in DOMAIN tables[c][i] \ {"tag"} : tables[c][i][f].ctx # "tcx"
        ELSE tables[c][i].ctx # "tcx"

IsFailure(o) ==
    /\ ~o.ok
    /\ DOMAIN o = {"ok", "kind", "msg"}
    /\ o.kind \in FailureKinds

\* Some node directly or deeply nested in the stable value of the call
\* fails to translate on its own.
NestedFailure ==
    CASE call = "Body" ->
            \/ \E i \in 1..Len(Arg.blocks) :
                   \/ ~Terminator_internal(tables, Arg.blocks[i].terminator).ok
                   \/ \E j \in 1..Len(Arg.blocks[i].statements) :
                          ~Statement_internal(tables, Arg.blocks[i].statements[j]).ok
            \/ \E i \in 1..Len(Arg.locals) : ~LocalDecl_internal(tables, Arg.locals[i]).ok
      [] call = "Statement" ->
            \/ ~Span_internal(tables, Arg.span).ok
            \/ ~StatementKind_internal(tables, Arg.kind).ok
      [] call = "Terminator" ->
            \/ ~Span_internal(tables, Arg.span).ok
            \/ ~TerminatorKind_internal(tables, Arg.kind).ok
      [] call = "LocalDecl" ->
            \/ ~Ty_internal(tables, Arg.ty).ok
            \/ ~Span_internal(tables, Arg.span).ok
      [] call = "Operand" ->
            IF Arg.tag = "Constant"
            THEN \/ ~Span_internal(tables, Arg.constant.span).ok
                 \/ ~MirConst_internal(tables, Arg.constant.const_).ok
            ELSE ~Place_internal(tables, Arg.place).ok
      [] call = "Place" ->
            \E i \in 1..Len(Arg.projection) :
                ~ProjectionElem_internal(tables, Arg.projection[i]).ok
      [] call = "GenericArgs" ->
            \E i \in 1..Len(Arg) : ~GenericArgKind_internal(tables, Arg[i]).ok
      [] call = "RigidTy" ->
            /\ Arg.tag = "Pat"
            /\ \/ ~Ty_internal(tables, Arg.ty).ok
               \/ ~OptionTyConst_internal(tables, Arg.pat.start).ok
               \/ ~OptionTyConst_internal(tables, Arg.pat.end).ok
      [] OTHER -> FALSE

\* C6: when a node nested in a Body, a statement, a terminator, a local
\* declaration, an operand, a place, an argument list or an optional
\* pattern bound fails to translate, the whole call fails: the outcome is a
\* failure of one of the three kinds and holds no internal body, block list
\* or partly filled value, however many siblings translated before.
C6_NestedFailureAborts ==
    NestedFailure => IsFailure(out)

C6_Witness ==
    /\ call = "Body"
    /\ Len(Arg.blocks) = 2
    /\ BasicBlock_internal(tables, Arg.blocks[1]).ok
    /\ Len(Arg.blocks[2].statements) = 2
    /\ Statement_internal(tables, Arg.blocks[2].statements[1]).ok
    /\ ~Statement_internal(tables, Arg.blocks[2].statements[2]).ok
    /\ Terminator_internal(tables, Arg.blocks[2].terminator).ok
    /\ Len(Arg.locals) > 0
    /\ \A i \in 1..Len(Arg.locals) : LocalDecl_internal(tables, Arg.locals[i]).ok
    /\ IsFailure(out)

\* C7: no step of a session changes the identity tables: a call, whether it
\* returns or fails, a repeated call and the return to the caller leave
\* every category as it was, entry for entry.
C7_TablesUnchanged ==
    [][/\ tables' = tables
       /\ \A c \in Categories :
             /\ Len(tables'[c]) = Len(tables[c])
             /\ \A i \in 0..(Len(tables[c]) - 1) :
                    Index(tables'[c], i) = Index(tables[c], i)]_vars

C7_Witness ==
    /\ call = "DefId"
    /\ ~out.ok
    /\ Len(tables.def_ids) = Arg
    /\ Arg > 0

\* The category a leaf call looks up and the index it looks up there.
LeafCategory(c) ==
    CASE c = "DefId" -> "def_ids" [] c = "Ty" -> "types"
      [] c = "TyConst" -> "ty_consts" [] c = "MirConst" -> "mir_consts"
      [] c = "Instance" -> "instances" [] c = "AllocId" -> "alloc_ids"
      [] c = "Layout" -> "layouts" [] c = "Span" -> "spans"

LeafCalls ==
    {"DefId", "Ty", "TyConst", "MirConst", "Instance", "AllocId", "Layout", "Span"}

LeafIndex(c, x) ==
    CASE c \in {"TyConst", "MirConst"} -> x.id
      [] c = "Instance" -> x.def
      [] OTHER -> x

\* C8: a call on a DefId, Ty, TyConst, MirConst, Instance, AllocId, Layout
\* or Span whose index is not registered when the call is made fails as a
\* missing index: the outcome holds no handle, and the category has no
\* entry for the index after the call either.
C8_MissingIdentity ==
    [][(/\ call' \in LeafCalls
        /\ LeafIndex(call', arg'[call']) >= Len(tables[LeafCategory(call')])) =>
           /\ out' = Fail(MissingIdentity, MissingIndexMsg)
           /\ IsFailure(out')
           /\ LeafIndex(call', arg'[call']) >= Len(tables'[LeafCategory(call')])]_vars

C8_Witness ==
    /\ call = "MirConst"
    /\ Len(tables.mir_consts) > 0
    /\ ~Registered("mir_consts", Arg.id)
    /\ out.kind = MissingIdentity

\* The table entries a stable value refers to, as <<category, index>> pairs.
ArgRefs(a) ==
    CASE a.tag = "Lifetime" -> {}
      [] a.tag = "Type" -> {<<"types", a.ty>>}
      [] a.tag = "Const" -> {<<"ty_consts", a.cnst.id>>}

ArgsRefs(args) == UNION {ArgRefs(args[i]) : i \in 1..Len(args)}

OptionRefs(o) == IF o.some THEN {<<"ty_consts", o.cnst.id>>} ELSE {}

BoundVarRefs(b) ==
    IF b.tag \in {"Ty", "Region"} /\ b.kind \in {"Param", "BrNamed"}
    THEN {<<"def_ids", b.def>>}
    ELSE {}

PredicateRefs(b) ==
    LET v == b.value
        valueRefs ==
            CASE v.tag = "Trait" ->
                    {<<"def_ids", v.trait_ref.def_id>>}
                        \cup ArgsRefs(v.trait_ref.generic_args)
              [] v.tag = "Projection" ->
                    {<<"def_ids", v.proj.def_id>>} \cup ArgsRefs(v.proj.generic_args)
                        \cup (IF v.proj.term.tag = "Type"
                              THEN {<<"types", v.proj.term.ty>>}
                              ELSE {<<"ty_consts", v.proj.term.cnst.id>>})
              [] v.tag = "AutoTrait" -> {<<"def_ids", v.trait_def>>}
    IN  valueRefs \cup UNION {BoundVarRefs(b.bound_vars[i]) : i \in 1..Len(b.bound_vars)}

RigidTyRefs(ty) ==
    CASE ty.tag \in {"Slice", "RawPtr", "Ref"} -> {<<"types", ty.ty>>}
      [] ty.tag = "Array" -> {<<"types", ty.ty>>, <<"ty_consts", ty.cnst.id>>}
      [] ty.tag = "Pat" ->
            {<<"types", ty.ty>>} \cup OptionRefs(ty.pat.start) \cup OptionRefs(ty.pat.end)
      [] ty.tag \in {"Adt", "FnDef", "Closure", "Coroutine", "CoroutineWitness"} ->
            {<<"def_ids", ty.def>>} \cup ArgsRefs(ty.args)
      [] ty.tag = "Foreign" -> {<<"def_ids", ty.def>>}
      [] ty.tag = "FnPtr" ->
            {<<"types", ty.sig.inputs_and_output[i]>> :
                i \in 1..Len(ty.sig.inputs_and_output)}
      [] ty.tag = "Dynamic" ->
            UNION {PredicateRefs(ty.predicates[i]) : i \in 1..Len(ty.predicates)}
      [] ty.tag = "Tuple" -> {<<"types", ty.tys[i]>> : i \in 1..Len(ty.tys)}
      [] OTHER -> {}

Refs(c, x) ==
    CASE c \in LeafCalls -> {<<LeafCategory(c), LeafIndex(c, x)>>}
      [] c = "GenericArgs" -> ArgsRefs(x)
      [] c = "RigidTy" -> RigidTyRefs(x)
      [] c = "Region" -> {}

\* Two tables hold the same thing at every entry of refs: the entry is
\* missing from both, or it is present in both with the same handle.
Agree(t1, t2, refs) ==
    \A r \in refs :
        LET m1 == t1[r[1]]
            m2 == t2[r[1]]
        IN  /\ (r[2] < Len(m1)) = (r[2] < Len(m2))
            /\ r[2] < Len(m1) => m1[r[2] + 1] = m2[r[2] + 1]

RefCalls == LeafCalls \cup {"GenericArgs", "RigidTy", "Region"}

\* The outcome of the call in progress is the one every table gives that
\* agrees with the session's on the entries the stable value refers to.
DependsOnRefsOnly ==
    call \in RefCalls =>
        \A t2 \in TableSpace :
            Agree(tables, t2, Refs(call, Arg)) => Translate(t2, call, Arg) = out

\* A second call on the same stable value gives the outcome of the first.
SameOutcomeTwice ==
    (call # NoCall /\ call' = call /\ arg' = arg) => out' = out

MaskInfo(info, M) ==
    [span |-> IF "spans" \in M THEN DUMMY_SP ELSE info.span,
     scope |-> IF "scope" \in M THEN "OUTERMOST_SOURCE_SCOPE" ELSE info.scope]

MaskElem(e, M) ==
    IF e.tag = "PlaceElem::Downcast" /\ "downcast_name" \in M
    THEN [e EXCEPT !.name = <<>>]
    ELSE e

MaskPlace(pl, M) ==
    [pl EXCEPT !.projection = [i \in 1..Len(@) |-> MaskElem(@[i], M)]]

MaskOperand(o, M) == [o EXCEPT !.place = MaskPlace(@, M)]

MaskRegion(r, M) == IF "regions" \in M THEN re_erased ELSE r

MaskArg(a, M) ==
    IF a.tag = "GenericArg::Lifetime" THEN [a EXCEPT !.region = MaskRegion(@, M)] ELSE a

MaskRvalue(rv, M) ==
    CASE rv.tag = "Rvalue::Use" -> [rv EXCEPT !.operand = MaskOperand(@, M)]
      [] rv.tag = "Rvalue::BinaryOp" ->
            [rv EXCEPT !.left = MaskOperand(@, M), !.right = MaskOperand(@, M)]
      [] rv.tag = "Rvalue::Ref" ->
            [rv EXCEPT !.region = MaskRegion(@, M), !.place = MaskPlace(@, M)]
      [] rv.tag = "Rvalue::Aggregate" ->
            [rv EXCEPT !.kind.args = [i \in 1..Len(@) |-> MaskArg(@[i], M)],
                       !.operands = [i \in 1..Len(@) |-> MaskOperand(@[i], M)]]

MaskStatement(st, M) ==
    [source_info |-> MaskInfo(st.source_info, M),
     kind |-> IF st.kind.tag = "StatementKind::Assign"
              THEN [st.kind EXCEPT !.place = MaskPlace(@, M),
                                   !.rvalue = MaskRvalue(@, M)]
              ELSE st.kind]

MaskUnwind(u, M) ==
    IF u.tag = "Terminate" /\ "terminate_reason" \in M
    THEN [u EXCEPT !.reason = "Abi"]
    ELSE u

MaskTerminatorKind(k, M) ==
    CASE k.tag = "TerminatorKind::Drop" ->
            [k EXCEPT !.place = MaskPlace(@, M), !.unwind = MaskUnwind(@, M),
                      !.replace = IF "replace" \in M THEN FALSE ELSE @]
      [] k.tag = "TerminatorKind::Call" ->
            [k EXCEPT !.func = MaskOperand(@, M),
                      !.args = [i \in 1..Len(@) |->
                                   [node |-> MaskOperand(@[i].node, M), span |-> DUMMY_SP]],
                      !.destination = MaskPlace(@, M),
                      !.unwind = MaskUnwind(@, M),
                      !.call_source = IF "call_source" \in M THEN "Misc" ELSE @,
                      !.fn_span = IF "fn_span" \in M THEN DUMMY_SP ELSE @]
      [] k.tag = "TerminatorKind::UnwindTerminate" ->
            [k EXCEPT !.reason = IF "terminate_reason" \in M THEN "Abi" ELSE @]
      [] OTHER -> k

MaskBlock(b, M) ==
    [statements |-> [i \in 1..Len(b.statements) |-> MaskStatement(b.statements[i], M)],
     terminator |-> <<[source_info |-> MaskInfo(b.terminator[1].source_info, M),
                       kind |-> MaskTerminatorKind(b.terminator[1].kind, M)]>>,
     is_cleanup |-> IF "is_cleanup" \in M THEN FALSE ELSE b.is_cleanup]

MaskLocal(d, M) ==
    [d EXCEPT !.local_info = IF "local_info" \in M THEN "Boring" ELSE @,
              !.user_ty = IF "local_user_ty" \in M THEN <<>> ELSE @,
              !.source_info = MaskInfo(@, M)]

MaskBody(v, M) ==
    [v EXCEPT !.source = IF "source" \in M THEN "CRATE_DEF_ID" ELSE @,
              !.basic_blocks = [i \in 1..Len(@) |-> MaskBlock(@[i], M)],
              !.source_scopes = IF "source_scopes" \in M THEN <<>> ELSE @,
              !.local_decls = [i \in 1..Len(@) |-> MaskLocal(@[i], M)],
              !.user_type_annotations = <<>>,
              !.var_debug_info = <<>>,
              !.span = IF "body_span" \in M THEN DUMMY_SP ELSE @,
              !.coroutine = <<>>,
              !.tainted_by_errors = <<>>]

\* The lossy fields the round-trip contract names: regions, spans and the
\* bookkeeping tables with the scopes that index them.
DocumentedLossy ==
    {"regions", "spans", "fn_span", "body_span", "source_scopes", "scope"}

\* Every field a translated body holds a constant in.
ActualLossy == LossyFields \cup {"regions"}

MatchingTag(g) == IF g = "PointerExposeAddress" THEN "PointerExposeProvenance" ELSE g

PayloadKept(f, v, r) ==
    /\ (f = "Abi" /\ v.tag \in AbiUnwindTags) => r.unwind = v.unwind
    /\ (f = "Abi" /\ v.tag \in AbiPlainTags) => r = [tag |-> v.tag]
    /\ (f = "BorrowKind" /\ v.tag = "Fake") => r.fake = v.fake
    /\ (f = "BorrowKind" /\ v.tag = "Mut") => r.kind = v.kind
    /\ (f = "PointerCoercion" /\ v.tag = "ClosureFnPointer") => r.safety = v.safety
    /\ (f = "CastKind" /\ v.tag = "PointerCoercion") =>
            /\ r.coercion.tag = v.coercion.tag
            /\ v.coercion.tag = "ClosureFnPointer" =>
                    r.coercion.safety = v.coercion.safety

C11_ScalarsTagForTag ==
    call = "Scalar" =>
        LET f == Arg.family
            v == Arg.value
        IN  /\ out.ok
            /\ out.val.tag = MatchingTag(v.tag)
            /\ PayloadKept(f, v, out.val)
            /\ \A w \in ScalarValues(f) \ {v} : Scalar_internal(f, w) # out.val
            /\ \A t \in TableSpace : Translate(t, call, Arg) = out

C11_Witness ==
    /\ call = "Scalar"
    /\ Arg.family = "CastKind"
    /\ Arg.value = [tag |-> "PointerExposeAddress"]
    /\ out = Ok([tag |-> "PointerExposeProvenance"])
    /\ tables = MkTables(0, {})

(***************************************************************************)
(* C12.  The terminator kind Abort is translated, in any tables, to the    *)
(* internal UnwindTerminate with the reason Abi; the unwind action         *)
(* Terminate is translated, in any tables and also inside a Drop, Call or  *)
(* Assert terminator kind, to the internal Terminate with the reason Abi.  *)
(***************************************************************************)
HasUnwind(k) == k.tag \in {"Drop", "Call", "Assert"}

C12_TerminateReasonAbi ==
    /\ (call = "TerminatorKind" /\ Arg.tag = "Abort") =>
            out = Ok([tag |-> "TerminatorKind::UnwindTerminate", reason |-> "Abi"])
    /\ (call = "UnwindAction" /\ Arg.tag = "Terminate") =>
            out = Ok([tag |-> "Terminate", reason |-> "Abi"])
    /\ (call = "TerminatorKind" /\ HasUnwind(Arg) /\ Arg.unwind.tag = "Terminate"
        /\ out.ok) =>
            out.val.unwind = [tag |-> "Terminate", reason |-> "Abi"]

C12_Witness ==
    /\ tables = MkTables(0, {})
    /\ call = "TerminatorKind"
    /\ Arg.tag = "Abort"
    /\ out.ok
    /\ out.val.reason = "Abi"

(***************************************************************************)
(* C13.  Scenario A: the tables hold a two-field tuple type and the types  *)
(* of its fields; the stable place is local 0 with the single projection   *)
(* Field(2, ty), ty being the stable type of the tuple's second field.     *)
(* The internal place is local 0 with exactly one projection element, a    *)
(* Field with index 2 whose type is the internal type of that field.       *)
(***************************************************************************)
\* The stable types of the fields of the tuple; the tuple itself is type 0.
TupleFieldTys == <<1, 2>>

ScenarioA ==
    [local |-> 0,
     projection |-> <<[tag |-> "Field", field |-> 2, ty |-> TupleFieldTys[2]]>>]

TupleRegistered ==
    \A i \in {0} \cup {TupleFieldTys[k] : k \in 1..2} :
        /\ Registered("types", i)
        /\ tables["types"][i + 1].ctx = "tcx"

C13_ScenarioA ==
    (call = "Place" /\ Arg = ScenarioA /\ TupleRegistered) =>
        /\ out.ok
        /\ out.val.local = 0
        /\ Len(out.val.projection) = 1
        /\ out.val.projection[1] =
              [tag |-> "PlaceElem::Field", field |-> 2,
               ty |-> tables["types"][TupleFieldTys[2] + 1]]

C13_Witness ==
    /\ call = "Place"
    /\ Arg = ScenarioA
    /\ TupleRegistered
    /\ out.ok
    /\ out.val.projection[1].ty = Handle("types", 2, "tcx")

(***************************************************************************)
(* C14.  A stable node whose payload comes from an opaque field never      *)
(* yields a value, and fails as an unsupported construct: a Coverage       *)
(* statement, a FakeRead with an opaque cause and the UserTypeProjection   *)
(* of an AscribeUserType fail with the opaque-field condition; an          *)
(* InlineAsm terminator fails with the not-yet-implemented condition.      *)
(***************************************************************************)
\* The stable value of the call is an opaque node, and nothing translated
\* before the node has failed.
OpaqueStatementKind ==
    /\ call = "StatementKind"
    /\ \/ Arg.tag = "Coverage"
       \/ Arg.tag = "FakeRead" /\ Arg.cause \in OpaqueCauses
       \/ Arg.tag = "AscribeUserType" /\ Place_internal(tables, Arg.place).ok

OpaqueTerminatorKind == call = "TerminatorKind" /\ Arg.tag = "InlineAsm"

OpaqueCondition == Fail(UnsupportedConstruct, OpaqueFieldMsg)

\* C14 as stated: every opaque node fails with the one opaque-field condition.
C14_Original ==
    (OpaqueStatementKind \/ OpaqueTerminatorKind) => out = OpaqueCondition

C14_OpaqueNodesFail ==
    /\ OpaqueStatementKind => out = OpaqueCondition
    /\ OpaqueTerminatorKind =>
            /\ out = Fail(UnsupportedConstruct, TodoMsg)
            /\ out # OpaqueCondition
    /\ (call = "Statement" /\ Registered("spans", Arg.span)
        /\ (Arg.kind.tag = "Coverage"
            \/ (Arg.kind.tag = "FakeRead" /\ Arg.kind.cause \in OpaqueCauses))) =>
            out = OpaqueCondition
    /\ (call = "Terminator" /\ Registered("spans", Arg.span)
        /\ Arg.kind.tag = "InlineAsm") =>
            out = Fail(UnsupportedConstruct, TodoMsg)

C14_Witness ==
    /\ OpaqueTerminatorKind
    /\ ~out.ok
    /\ out.kind = UnsupportedConstruct
    /\ out.msg = TodoMsg

(***************************************************************************)
(* C15.  A GlobalAsm mono item fails as an unsupported construct whatever  *)
(* its payload; a Fn or Static mono item whose instance or def id is       *)
(* registered yields the internal Fn or Static item around the handle of   *)
(* the tables when that handle lifts into the context, and fails as a      *)
(* failed lift when it does not.                                           *)
(***************************************************************************)
\* The table entry a Fn or Static item reads.
MonoItemEntry(item) ==
    IF item.tag = "Fn"
    THEN tables["instances"][item.instance.def + 1]
    ELSE tables["def_ids"][item.def + 1]

MonoItemRegistered(item) ==
    \/ item.tag = "Fn" /\ Registered("instances", item.instance.def)
    \/ item.tag = "Static" /\ Registered("def_ids", item.def)

MonoItemWrapping(item, h) ==
    IF item.tag = "Fn"
    THEN [tag |-> "MonoItem::Fn", instance |-> h]
    ELSE [tag |-> "MonoItem::Static", def |-> h]

\* C15 as stated: a registered instance or def id is enough to succeed.
C15_Original ==
    call = "MonoItem" =>
        /\ Arg.tag = "GlobalAsm" => (~out.ok /\ out.kind = UnsupportedConstruct)
        /\ MonoItemRegistered(Arg) =>
                out = Ok(MonoItemWrapping(Arg, MonoItemEntry(Arg)))

C15_MonoItems ==
    call = "MonoItem" =>
        /\ Arg.tag = "GlobalAsm" => (~out.ok /\ out.kind = UnsupportedConstruct)
        /\ MonoItemRegistered(Arg) =>
                IF MonoItemEntry(Arg).ctx = "tcx"
                THEN out = Ok(MonoItemWrapping(Arg, MonoItemEntry(Arg)))
                ELSE ~out.ok /\ out.kind = LiftFailure

C15_Witness ==
    /\ call = "MonoItem"
    /\ Arg.tag = "Static"
    /\ MonoItemRegistered(Arg)
    /\ MonoItemEntry(Arg).ctx # "tcx"
    /\ ~out.ok
    /\ out.kind = LiftFailure

(***************************************************************************)
(* C16.  A registered def id, type, type constant, MIR constant, instance, *)
(* allocation id or layout is returned only after each handle of its table *)
(* entry has been lifted, and the call fails as a failed lift when one of  *)
(* them does not lift, also when the handle is embedded in a place; a      *)
(* registered span is returned as the tables hold it, without a lift.      *)
(***************************************************************************)
\* The handles held by an entry of category c.
EntryHandles(c, e) ==
    IF c = "mir_consts" THEN {e[f] : f \in DOMAIN e \ {"tag"}} ELSE {e}

LeafEntry == tables[LeafCategory(call)][LeafIndex(call, Arg) + 1]

LeafRegistered ==
    /\ call \in LeafCalls
    /\ Registered(LeafCategory(call), LeafIndex(call, Arg))

LiftedOrFailed ==
    IF \A h \in EntryHandles(LeafCategory(call), LeafEntry) : h.ctx = "tcx"
    THEN out = Ok(LeafEntry)
    ELSE out = LiftNone

\* C16 as stated: the span is lifted like every other handle.
C16_Original == LeafRegistered => LiftedOrFailed

C16_HandlesLifted ==
    /\ (LeafRegistered /\ call # "Span") => LiftedOrFailed
    /\ (LeafRegistered /\ call = "Span") => out = Ok(LeafEntry)
    /\ (call = "Place" /\ Len(Arg.projection) = 1 /\ Arg.projection[1].tag = "Field"
        /\ Registered("types", Arg.projection[1].ty)) =>
            IF tables["types"][Arg.projection[1].ty + 1].ctx = "tcx"
            THEN out.ok /\ out.val.projection[1].ty.ctx = "tcx"
            ELSE out = LiftNone

C16_Witness ==
    /\ LeafRegistered
    /\ call = "Span"
    /\ LeafEntry.ctx # "tcx"
    /\ out = Ok(LeafEntry)

(***************************************************************************)
(* C17.  A translated body has as many basic blocks as the stable body, in *)
(* the same order, each with the translations of its statements in their   *)
(* order and then the translation of its terminator; as many local         *)
(* declarations, in the same order; the same argument count; and empty     *)
(* source scopes, user-type annotations and variable debug info, no        *)
(* coroutine info and no taint marker.                                     *)
(***************************************************************************)
BlockTranslated(b, ib) ==
    /\ Len(ib.statements) = Len(b.statements)
    /\ \A j \in 1..Len(b.statements) :
           Ok(ib.statements[j]) = Statement_internal(tables, b.statements[j])
    /\ Len(ib.terminator) = 1
    /\ Ok(ib.terminator[1]) = Terminator_internal(tables, b.terminator)

C17_BodyAssembled ==
    (call = "Body" /\ out.ok) =>
        /\ Len(out.val.basic_blocks) = Len(Arg.blocks)
        /\ \A i \in 1..Len(Arg.blocks) :
               BlockTranslated(Arg.blocks[i], out.val.basic_blocks[i])
        /\ Len(out.val.local_decls) = Len(Arg.locals)
        /\ \A i \in 1..Len(Arg.locals) :
               Ok(out.val.local_decls[i]) = LocalDecl_internal(tables, Arg.locals[i])
        /\ out.val.arg_count = Arg.arg_count
        /\ out.val.source_scopes = <<>>
        /\ out.val.user_type_annotations = <<>>
        /\ out.val.var_debug_info = <<>>
        /\ out.val.coroutine = <<>>
        /\ out.val.tainted_by_errors = <<>>

C17_Witness ==
    /\ call = "Body"
    /\ out.ok
    /\ Len(Arg.blocks) = 2
    /\ Arg.blocks[1] # Arg.blocks[2]
    /\ Len(Arg.blocks[2].statements) = 2
    /\ Len(Arg.locals) = 2
    /\ Arg.arg_count = 1
    /\ Len(out.val.basic_blocks) = 2
    /\ Len(out.val.basic_blocks[2].statements) = 2
    /\ out.val.local_decls[1] # out.val.local_decls[2]

(***************************************************************************)
(* C18.  In a window in which threads translate in parallel and nothing is *)
(* inserted into the tables, in every interleaving of their steps each     *)
(* call ends with the outcome the same call has when it runs alone against *)
(* the tables, and what a call has collected so far is what it collects    *)
(* when it runs alone.                                                     *)
(***************************************************************************)
\* The outcome of the call of thread w run alone, with no other thread.
Alone(w) == VecTy_internal(tables, workers[w].job)

C18_Interleaved ==
    \A w \in Workers :
        /\ workers[w].res # Pending => workers[w].res = Alone(w)
        /\ \A i \in 1..Len(workers[w].acc) :
               Ok(workers[w].acc[i]) = Ty_internal(tables, workers[w].job[i])

\* The first thread has ended with a value while the second, which will
\* fail, is half-way through its call.
C18_Witness ==
    /\ workers["first"].res.ok
    /\ Len(workers["first"].job) = 2
    /\ workers["second"].res = Pending
    /\ Len(workers["second"].job) = 2
    /\ Len(workers["second"].acc) = 1
    /\ ~Alone("second").ok

(***************************************************************************)
(* C19.  Translating a TyConst, MirConst, AllocId, Ty, Instance or Layout  *)
(* is the lookup of its index followed by the lift of what the tables hold *)
(* there: two stable values with the same index and different other       *)
(* fields have the same outcome, and a translated MirConst has the variant *)
(* of its table entry (Ty, Unevaluated or Val) with each component lifted. *)
(***************************************************************************)
LookupCalls == {"TyConst", "MirConst", "AllocId", "Ty", "Instance", "Layout"}

\* The stable values of call c that carry the index of x.
SameIndex(c, x) ==
    CASE c = "TyConst" -> {y \in TyConsts : y.id = x.id}
      [] c = "MirConst" -> {y \in MirConsts : y.id = x.id}
      [] c = "Instance" -> {y \in Instances : y.def = x.def}
      [] OTHER -> {x}

LookupThenLift ==
    IF ~Registered(LeafCategory(call), LeafIndex(call, Arg))
    THEN Fail(MissingIdentity, MissingIndexMsg)
    ELSE IF \A h \in EntryHandles(LeafCategory(call), LeafEntry) : h.ctx = "tcx"
    THEN Ok(LeafEntry)
    ELSE Fail(LiftFailure, UnwrapNoneMsg)

C19_LookupThenLift ==
    call \in LookupCalls =>
        /\ out = LookupThenLift
        /\ \A y \in SameIndex(call, Arg) : Translate(tables, call, y) = out
        /\ (call = "MirConst" /\ out.ok) =>
               /\ out.val.tag = LeafEntry.tag
               /\ out.val.tag \in {"Const::Ty", "Const::Unevaluated", "Const::Val"}
               /\ DOMAIN out.val = DOMAIN LeafEntry
               /\ \A f \in DOMAIN LeafEntry \ {"tag"} :
                      out.val[f] = LeafEntry[f] /\ out.val[f].ctx = "tcx"

C19_Witness ==
    /\ call = "MirConst"
    /\ Arg.kind = "ZeroSized"
    /\ out.ok
    /\ out.val.tag = "Const::Unevaluated"
    /\ tables # FullTables

(***************************************************************************)
(* C20.  A translated place has the local of the stable place and a        *)
(* projection of the same length, whose element at each position is the    *)
(* translation of the stable element at that position taken on its own: it *)
(* has the internal shape of the same name and the same field index, index *)
(* local, offset, minimum length, bounds, from-end flag and variant.       *)
(***************************************************************************)
PlaceElemShape(g) ==
    CASE g = "Deref" -> "PlaceElem::Deref"
      [] g = "Field" -> "PlaceElem::Field"
      [] g = "Index" -> "PlaceElem::Index"
      [] g = "ConstantIndex" -> "PlaceElem::ConstantIndex"
      [] g = "Subslice" -> "PlaceElem::Subslice"
      [] g = "Downcast" -> "PlaceElem::Downcast"
      [] g = "OpaqueCast" -> "PlaceElem::OpaqueCast"
      [] g = "Subtype" -> "PlaceElem::Subtype"

NumbersKept(e, ie) ==
    /\ e.tag = "Field" => ie.field = e.field
    /\ e.tag = "Index" => ie.local = e.local
    /\ e.tag = "ConstantIndex" =>
            /\ ie.offset = e.offset
            /\ ie.min_length = e.min_length
            /\ ie.from_end = e.from_end
    /\ e.tag = "Subslice" =>
            ie.from = e.from /\ ie.to = e.to /\ ie.from_end = e.from_end
    /\ e.tag = "Downcast" => ie.variant = e.variant

C20_PlaceProjection ==
    (call = "Place" /\ out.ok) =>
        /\ out.val.local = Arg.local
        /\ Len(out.val.projection) = Len(Arg.projection)
        /\ \A i \in 1..Len(Arg.projection) :
               /\ out.val.projection[i].tag = PlaceElemShape(Arg.projection[i].tag)
               /\ NumbersKept(Arg.projection[i], out.val.projection[i])
               /\ Ok(out.val.projection[i]) =
                      ProjectionElem_internal(tables, Arg.projection[i])

C20_Witness ==
    /\ call = "Place"
    /\ out.ok
    /\ Arg.local = 0
    /\ Len(Arg.projection) = 2
    /\ Arg.projection[1] = [tag |-> "Downcast", variant |-> 1]
    /\ Arg.projection[2].tag = "Field"
    /\ out.val.projection[2].field = 2

(***************************************************************************)
(* C21.  A translated GenericArgs list has the length of the stable list,  *)
(* its element at each position is the translation of the stable element  *)
(* at that position and has its kind (a Lifetime gives a region, a Type a  *)
(* type, a Const a const), every Lifetime gives the erased region, and the *)
(* list fails as soon as one of its elements fails.                        *)
(***************************************************************************)
GenericArgShape(g) ==
    CASE g = "Lifetime" -> "GenericArg::Lifetime"
      [] g = "Type" -> "GenericArg::Type"
      [] g = "Const" -> "GenericArg::Const"

C21_GenericArgs ==
    call = "GenericArgs" =>
        /\ out.ok =>
              /\ Len(out.val) = Len(Arg)
              /\ \A i \in 1..Len(Arg) :
                     /\ Ok(out.val[i]) = GenericArgKind_internal(tables, Arg[i])
                     /\ out.val[i].tag = GenericArgShape(Arg[i].tag)
                     /\ Arg[i].tag = "Lifetime" => out.val[i].region = re_erased
                     /\ Arg[i].tag = "Type" => out.val[i].ty = tables["types"][Arg[i].ty + 1]
                     /\ Arg[i].tag = "Const" =>
                            out.val[i].ct = tables["ty_consts"][Arg[i].cnst.id + 1]
        /\ out.ok <=> \A i \in 1..Len(Arg) : GenericArgKind_internal(tables, Arg[i]).ok

C21_Witness ==
    /\ call = "GenericArgs"
    /\ Len(Arg) = 2
    /\ Arg[1].tag = "Lifetime"
    /\ Arg[2].tag = "Const"
    /\ out.ok
    /\ out.val[1].region = re_erased
    /\ out.val[2].tag = "GenericArg::Const"

(***************************************************************************)
(* C22.  The function span of a translated Call, the span of each of its   *)
(* arguments and the span of a translated body are the dummy span; a       *)
(* translated statement, terminator or local declaration carries the span  *)
(* the tables hold for its own span index, in the outermost source scope.  *)
(***************************************************************************)
CallSpansDummy(k, ik) ==
    k.tag = "Call" =>
        /\ ik.fn_span = DUMMY_SP
        /\ Len(ik.args) = Len(k.args)
        /\ \A i \in 1..Len(ik.args) : ik.args[i].span = DUMMY_SP

OwnSpan(x, ix) ==
    ix.source_info = [span |-> tables["spans"][x.span + 1],
                      scope |-> "OUTERMOST_SOURCE_SCOPE"]

C22_SentinelSpans ==
    /\ (call = "TerminatorKind" /\ out.ok) => CallSpansDummy(Arg, out.val)
    /\ (call = "Terminator" /\ out.ok) =>
            CallSpansDummy(Arg.kind, out.val.kind) /\ OwnSpan(Arg, out.val)
    /\ (call \in {"Statement", "LocalDecl"} /\ out.ok) => OwnSpan(Arg, out.val)
    /\ (call = "Body" /\ out.ok) =>
            /\ out.val.span = DUMMY_SP
            /\ \A i \in 1..Len(Arg.locals) : OwnSpan(Arg.locals[i], out.val.local_decls[i])
            /\ \A i \in 1..Len(Arg.blocks) :
                   /\ OwnSpan(Arg.blocks[i].terminator,
                              out.val.basic_blocks[i].terminator[1])
                   /\ \A j \in 1..Len(Arg.blocks[i].statements) :
                          OwnSpan(Arg.blocks[i].statements[j],
                                  out.val.basic_blocks[i].statements[j])

C22_Witness ==
    /\ call = "Terminator"
    /\ Arg.kind.tag = "Call"
    /\ Len(Arg.kind.args) = 2
    /\ Arg.span = 1
    /\ out.ok
    /\ out.val.kind.fn_span = DUMMY_SP
    /\ out.val.kind.args[2].span = DUMMY_SP
    /\ out.val.source_info.span = Handle("spans", 1, "tcx")

(***************************************************************************)
(* C23.  Whatever the stable node and the tables: a translated Drop has    *)
(* replace = false, a translated Call has the call source Misc, a          *)
(* translated local declaration has no user type and the local info        *)
(* Boring; a translated constant operand and a translated Adt aggregate    *)
(* have the user-type-annotation index of the stable node.                 *)
(***************************************************************************)
TerminatorDefaults(k, ik) ==
    /\ k.tag = "Drop" => ik.replace = FALSE
    /\ k.tag = "Call" => ik.call_source = "Misc"

LocalDeclDefaults(id) == id.user_ty = <<>> /\ id.local_info = "Boring"

C23_DefaultedFields ==
    /\ (call = "TerminatorKind" /\ out.ok) => TerminatorDefaults(Arg, out.val)
    /\ (call = "Terminator" /\ out.ok) => TerminatorDefaults(Arg.kind, out.val.kind)
    /\ (call = "LocalDecl" /\ out.ok) => LocalDeclDefaults(out.val)
    /\ (call = "Body" /\ out.ok) =>
            /\ \A i \in 1..Len(out.val.local_decls) :
                   LocalDeclDefaults(out.val.local_decls[i])
            /\ \A i \in 1..Len(Arg.blocks) :
                   TerminatorDefaults(Arg.blocks[i].terminator.kind,
                                      out.val.basic_blocks[i].terminator[1].kind)
    /\ (call = "Operand" /\ out.ok /\ Arg.tag = "Constant") =>
            out.val.constant.user_ty = Arg.constant.user_ty
    /\ (call = "Rvalue" /\ out.ok /\ Arg.tag = "Aggregate" /\ Arg.kind.tag = "Adt") =>
            out.val.kind.user_ty = Arg.kind.user_ty

C23_Witness ==
    /\ call = "LocalDecl"
    /\ Arg.ty = 1
    /\ Arg.mutability = "Mut"
    /\ tables # FullTables
    /\ out.ok
    /\ out.val.user_ty = <<>>
    /\ out.val.local_info = "Boring"

(***************************************************************************)
(* C24.  A call of Body::internal on a finite body ends: it returns the    *)
(* complete internal body or the failure of a node, the same outcome as    *)
(* the translation taken as a whole, after visiting no node twice: the     *)
(* nodes visited are the nodes collected, plus the one that failed, and    *)
(* never more than the body has.                                           *)
(***************************************************************************)
\* The statements and terminators of a sequence of blocks, as positions.
BlockNodes(bs) ==
    UNION {{<<i, j>> : j \in 0..Len(bs[i].statements)} : i \in 1..Len(bs)}

NodeCount(body) == Cardinality(BlockNodes(body.blocks)) + Len(body.locals)

Collected(w) ==
    Cardinality(BlockNodes(w.blocks)) + Len(w.statements) + Len(w.locals)

C24_Terminates ==
    /\ <>(walk.res # Pending)
    /\ [](walk.visits <= NodeCount(walk.body))
    /\ [](walk.res = Pending => walk.visits = Collected(walk))
    /\ [](walk.res # Pending =>
            /\ walk.res = Body_internal(tables, walk.body)
            /\ walk.res.ok => walk.visits = NodeCount(walk.body)
            /\ ~walk.res.ok => walk.visits = Collected(walk) + 1)

C24_Witness ==
    /\ walk.res # Pending
    /\ walk.res.ok
    /\ Len(walk.body.blocks) = 2
    /\ walk.visits = NodeCount(walk.body)
    /\ walk.visits >= 6

(***************************************************************************)
(* C25.  A translated terminator has the control-flow edges of the stable  *)
(* one: the target of a Goto, Drop, Assert and Call (an absent Call target *)
(* stays absent), the block of a Cleanup unwind action, every (value,      *)
(* target) branch of a SwitchInt in order and its otherwise target, with   *)
(* the same numbers; the expected flag of an Assert is the same too.       *)
(***************************************************************************)
UnwindEdgeKept(u, iu) ==
    u.tag = "Cleanup" => (iu.tag = "Cleanup" /\ iu.block = u.block)

EdgesKept(k, ik) ==
    /\ k.tag \in {"Goto", "Drop", "Assert", "Call"} => ik.target = k.target
    /\ k.tag \in {"Drop", "Assert", "Call"} => UnwindEdgeKept(k.unwind, ik.unwind)
    /\ k.tag = "Assert" => ik.expected = k.expected
    /\ k.tag = "SwitchInt" =>
            /\ Len(ik.targets.branches) = Len(k.targets.branches)
            /\ \A i \in 1..Len(k.targets.branches) :
                   /\ ik.targets.branches[i].value = k.targets.branches[i].value
                   /\ ik.targets.branches[i].target = k.targets.branches[i].target
            /\ ik.targets.otherwise = k.targets.otherwise

C25_EdgesPreserved ==
    /\ (call = "TerminatorKind" /\ out.ok) => EdgesKept(Arg, out.val)
    /\ (call = "Terminator" /\ out.ok) => EdgesKept(Arg.kind, out.val.kind)
    /\ call = "UnwindAction" => (out.ok /\ UnwindEdgeKept(Arg, out.val))
    /\ (call = "Body" /\ out.ok) =>
            \A i \in 1..Len(Arg.blocks) :
                EdgesKept(Arg.blocks[i].terminator.kind,
                          out.val.basic_blocks[i].terminator[1].kind)

C25_Witness ==
    /\ call = "TerminatorKind"
    /\ Arg.tag = "SwitchInt"
    /\ out.ok
    /\ Len(out.val.targets.branches) = 2
    /\ out.val.targets.branches[2] = [value |-> 5, target |-> 2]
    /\ out.val.targets.otherwise = 3

(***************************************************************************)
(* C26.  In a translated body every basic block has the cleanup flag false *)
(* and holds a terminator, also a block that a Cleanup unwind action of    *)
(* the same body points to; the source of the body is the crate root.      *)
(***************************************************************************)
\* The blocks of a stable body (counted from 0) that a Cleanup edge of the
\* body points to.
CleanupTargets(body) ==
    {body.blocks[i].terminator.kind.unwind.block :
        i \in {n \in 1..Len(body.blocks) :
                 /\ body.blocks[n].terminator.kind.tag \in {"Drop", "Call", "Assert"}
                 /\ body.blocks[n].terminator.kind.unwind.tag = "Cleanup"}}

C26_NoCleanupCrateRoot ==
    (call = "Body" /\ out.ok) =>
        /\ out.val.source = "CRATE_DEF_ID"
        /\ \A i \in 1..Len(out.val.basic_blocks) :
               /\ out.val.basic_blocks[i].is_cleanup = FALSE
               /\ Len(out.val.basic_blocks[i].terminator) = 1
        /\ \A n \in CleanupTargets(Arg) :
               n < Len(out.val.basic_blocks) =>
                   out.val.basic_blocks[n + 1].is_cleanup = FALSE

C26_Witness ==
    /\ call = "Body"
    /\ out.ok
    /\ Len(Arg.blocks) = 2
    /\ 1 \in CleanupTargets(Arg)
    /\ out.val.basic_blocks[2].is_cleanup = FALSE
    /\ out.val.source = "CRATE_DEF_ID"

(***************************************************************************)
(* C27.  An AscribeUserType statement kind fails whatever its payload; a   *)
(* body holding an AscribeUserType, a Coverage statement, a FakeRead with  *)
(* an opaque cause or an InlineAsm terminator in any block fails; a body   *)
(* of the remaining kinds whose indices are all registered translates when *)
(* every handle it looks up lifts, and fails with a failed lift otherwise. *)
(***************************************************************************)
\* The tables with the registrations of the session and no foreign entry.
Native(t) == MkTables(Len(t["types"]), {})

\* The body of the call holds none of the four excluded nodes, and every
\* index it uses is registered: with the same registrations and handles of
\* tcx only, no lookup of its translation fails.
RemainingKindsRegistered ==
    /\ call = "Body"
    /\ ~HoldsExcluded
    /\ Body_internal(Native(tables), Arg).ok

MissingIndex == Fail(MissingIdentity, MissingIndexMsg)

\* The outcomes of the nodes of a body, each translated on its own, in the
\* order of the traversal.
NodeOutcomes(t, body) ==
    LET block(b) ==
            [j \in 1..Len(b.statements) |-> Statement_internal(t, b.statements[j])]
            \o <<Terminator_internal(t, b.terminator)>>
        upto[n \in 0..Len(body.blocks)] ==
            IF n = 0 THEN <<>> ELSE upto[n - 1] \o block(body.blocks[n])
    IN  upto[Len(body.blocks)]
        \o [i \in 1..Len(body.locals) |-> LocalDecl_internal(t, body.locals[i])]

Failing(os) == {n \in 1..Len(os) : ~os[n].ok}

\* The first failure of a sequence of outcomes that holds one.
FirstFailure(os) == os[CHOOSE n \in Failing(os) : \A m \in Failing(os) : n <= m]

C28_FirstFailure ==
    /\ (call \in {"Statement", "Terminator"} /\ ~Registered("spans", Arg.span)) =>
            out = MissingIndex
    /\ (call \in {"Statement", "Terminator"} /\ Registered("spans", Arg.span)
        /\ HoldsExcluded /\ Arg.kind.tag # "AscribeUserType") =>
            (~out.ok /\ out.kind = UnsupportedConstruct)
    /\ (call = "StatementKind" /\ Arg.tag = "FakeRead" /\ Arg.cause \in OpaqueCauses) =>
            out = OpaqueCondition
    /\ (call = "StatementKind" /\ Arg.tag = "AscribeUserType"
        /\ ~Place_internal(tables, Arg.place).ok) =>
            (out = Place_internal(tables, Arg.place) /\ out # OpaqueCondition)
    /\ (call = "Body" /\ Failing(NodeOutcomes(tables, Arg)) # {}) =>
            out = FirstFailure(NodeOutcomes(tables, Arg))
    /\ (call = "Body" /\ Failing(NodeOutcomes(tables, Arg)) = {}) => out.ok

\* A body whose second block fails as unsupported and whose last local
\* declaration fails with a missing index: the block's failure is reported.
C28_Witness ==
    /\ call = "Body"
    /\ Len(Arg.blocks) = 2
    /\ Terminator_internal(tables, Arg.blocks[1].terminator).ok
    /\ Arg.blocks[2].statements # <<>>
    /\ \E n \in 1..Len(Arg.locals) :
           LocalDecl_internal(tables, Arg.locals[n]) = MissingIndex
    /\ ~out.ok
    /\ out.kind = UnsupportedConstruct
=============================================================================
